---- MODULE Spec2Model ----
(***************************************************************************)
(* Model of the archive-ingestion and run-bookkeeping core of              *)
(* allure3-docker-service: src/src/util.rs, src/src/unzip.rs,              *)
(* src/src/storage.rs, src/src/state.rs and src/src/handlers/api.rs.       *)
(*                                                                         *)
(* Text is modelled as a sequence of characters (one-character strings).   *)
(* A path is a sequence of components, a component a sequence of           *)
(* characters; the fixed file names of the layout ("projects", "runs",     *)
(* ...) are components of one token.  The file system is the set of        *)
(* existing directories and a map from file paths to contents.             *)
(*                                                                         *)
(* A handler is a sequence of steps, one per await; a write (temporary     *)
(* file, then rename) is one step that succeeds or fails with an I/O       *)
(* error.  A request can be dropped at any await.  The extraction runs as  *)
(* a blocking task of its own, which outlives a dropped request.           *)
(*                                                                         *)
(* Spec is the service under requests for one project and for invalid     *)
(* names; SpecUnzip is one extraction over all short entry names;          *)
(* SpecStatus is the status record written and read back; SpecWrite is a   *)
(* storage write in the steps of the code, with readers that take no       *)
(* guard; SpecTwo is a second project beside one whose renderer hangs;     *)
(* SpecPanic is Spec with an extraction task that may panic; SpecDelete is *)
(* uploads and deletions of the projects "a" and "." on a file system that *)
(* accepts every operation; SpecList is the listings over directories with *)
(* any entries; SpecDetached is Spec after an upload was dropped while its *)
(* extraction was queued; SpecReaders is the service with remove_dir_all   *)
(* in steps and a reader that takes no guard; SpecFair is the service      *)
(* under fair scheduling.                                                  *)
(***************************************************************************)
EXTENDS Integers, Sequences, FiniteSets, TLC

VARIABLES
    dirs,           \* file system: the set of existing directory paths
    files,          \* file system: file path -> content
    project_locks,  \* AppState.project_locks: project name -> serial of its mutex (0: no entry)
    holder,         \* the guards held: [handle |-> <<name, serial>>, by |-> request slot]
    req,            \* request slot -> the handler running in it (locals, position)
    task,           \* request slot -> the blocking extraction task it dispatched
    reserved,       \* history: project name -> the run IDs reserve_next_run_id
                    \* returned since the project last had no counter file
    arrived,        \* history: the number of requests that have arrived
    response        \* the response the step sent, NoResponse if it sent none

vars == <<dirs, files, project_locks, holder, req, task, reserved, arrived, response>>

\* no error text, no status
None == "none"

\* Option<T>: the empty sequence, or the sequence of the one value
NoneOpt == <<>>
Some(v) == <<v>>
IsSome(o) == o # <<>>
Unwrap(o) == o[1]

----------------------------------------------------------------------------
(* Bounds of the model.                                                    *)

\* request slots: the number of handlers that run concurrently
NumSlots == 2
\* requests that arrive in a behaviour
MaxRequests == 3
\* the run IDs regenerate_run is asked for
MaxRunId == 2
\* longest archive entry name drawn in SpecUnzip
MaxNameLen == 2
\* UnzipLimits, scaled down: entries, and sizes counted in 64 KiB chunks
max_files == 2
max_single_file == 1
max_total_uncompressed == 1
\* the longest error text of a status value in SpecStatus, in characters
MaxErrorLen == 2

\* util.rs: the longest accepted project name, in bytes
MaxProjectNameLen == 80

----------------------------------------------------------------------------
(* Characters and text.                                                    *)

Lower == {"a","b","c","d","e","f","g","h","i","j","k","l","m",
          "n","o","p","q","r","s","t","u","v","w","x","y","z"}
Upper == {"A","B","C","D","E","F","G","H","I","J","K","L","M",
          "N","O","P","Q","R","S","T","U","V","W","X","Y","Z"}
Digit == {"0","1","2","3","4","5","6","7","8","9"}

\* char::is_ascii_alphanumeric
is_ascii_alphanumeric(c) == c \in Lower \cup Upper \cup Digit

\* The UTF-8 length of a character: "é" stands for the characters that
\* take more than one byte.
Utf8Len(c) == IF c = "é" THEN 2 ELSE 1

\* str::as_bytes: the bytes of a text; the bytes of a multi-byte character
\* are no ASCII character.
RECURSIVE as_bytes(_)
as_bytes(s) ==
    IF s = <<>> THEN <<>>
    ELSE (IF Utf8Len(Head(s)) = 1 THEN <<Head(s)>> ELSE <<"xC3", "xA9">>)
         \o as_bytes(Tail(s))

\* str::len: the length in bytes
ByteLen(s) == Len(as_bytes(s))

\* u64::to_string, for the numbers the model reaches
DigitOf(n) == CASE n = 0 -> "0" [] n = 1 -> "1" [] n = 2 -> "2" [] n = 3 -> "3"
                [] n = 4 -> "4" [] n = 5 -> "5" [] n = 6 -> "6" [] n = 7 -> "7"
                [] n = 8 -> "8" [] n = 9 -> "9"
RECURSIVE to_string(_)
to_string(n) == IF n < 10 THEN <<DigitOf(n)>>
                ELSE Append(to_string(n \div 10), DigitOf(n % 10))

ValueOf(c) == CHOOSE n \in 0..9 : DigitOf(n) = c
RECURSIVE ParseDigits(_, _)
ParseDigits(s, acc) == IF s = <<>> THEN acc
                       ELSE ParseDigits(Tail(s), 10 * acc + ValueOf(Head(s)))

\* str::parse::<u64>().ok(): an optional "+" and then one or more digits
\* (leading zeros are read); None for any other text.  The texts of the
\* model are too short to overflow.  (The code trims the text of a file
\* before it parses; it writes these files without white space.)
parse_u64(s) ==
    LET digits == IF s # <<>> /\ Head(s) = "+" THEN Tail(s) ELSE s
    IN  IF digits # <<>> /\ \A i \in 1..Len(digits) : digits[i] \in Digit
        THEN Some(ParseDigits(digits, 0)) ELSE NoneOpt

\* the order of the bytes of the model's texts (u8::cmp); a fixed text kept
\* as one symbol is ordered by its first byte
ByteOrder == <<"+", "-", ".", "/", "0", "1", "2", "3", "4", "5", "6", "7", "8", "9",
               ":", "A", "B", "\\", "_", "a", "b", "p", "r", "xA9", "xC3">>
FirstByte(c) == CASE c = "runs" -> "r" [] c = "projects" -> "p" [] OTHER -> c
ByteRank(c) == CHOOSE i \in 1..Len(ByteOrder) : ByteOrder[i] = FirstByte(c)

\* str::cmp: the texts compared byte by byte, a proper prefix first
RECURSIVE bytes_lt(_, _)
bytes_lt(x, y) ==
    IF y = <<>> THEN FALSE
    ELSE IF x = <<>> THEN TRUE
    ELSE IF ByteRank(Head(x)) # ByteRank(Head(y)) THEN ByteRank(Head(x)) < ByteRank(Head(y))
    ELSE bytes_lt(Tail(x), Tail(y))
str_lt(s, t) == bytes_lt(as_bytes(s), as_bytes(t))

----------------------------------------------------------------------------
(* util.rs                                                                 *)

\* (mutant) the character check dropped: any non-empty short name passes
sanitize_name_no_charset(s) ==
    IF s = <<>> \/ ByteLen(s) > MaxProjectNameLen THEN NoneOpt ELSE Some(s)

\* sanitize_name: Some(s) for 1..80 bytes of [A-Za-z0-9._-], else None
sanitize_name(s) ==
    IF s = <<>> \/ ByteLen(s) > MaxProjectNameLen THEN NoneOpt
    ELSE IF \A i \in 1..Len(s) :
              is_ascii_alphanumeric(s[i]) \/ s[i] = "-" \/ s[i] = "_" \/ s[i] = "."
         THEN Some(s)
         ELSE NoneOpt

----------------------------------------------------------------------------
(* Paths (std::path) and the file system (std::fs, tokio::fs).             *)

IsPrefix(p, q) == Len(p) <= Len(q) /\ SubSeq(q, 1, Len(p)) = p

\* Path::parent
Parent(p) == SubSeq(p, 1, Len(p) - 1)

\* the directories create_dir_all makes: the path and its ancestors
Ancestors(p) == {SubSeq(p, 1, n) : n \in 1..Len(p)}

\* create_dir_all fails when a file is in the way
CanCreateDirAll(p) == \A a \in Ancestors(p) : a \notin DOMAIN files

\* File::create needs the parent directory and no directory at the path
CanCreateFile(p) == Parent(p) \in dirs /\ p \notin dirs

\* remove_dir_all: what is left of a set of paths
Outside(S, root) == {q \in S : ~IsPrefix(root, q)}

\* (mutant) remove_dir_all leaves the files in place
Restrict_keep_files(f, S) == f

Restrict(f, S) == [q \in S |-> f[q]]

WriteFile(f, p, content) == [q \in DOMAIN f \cup {p} |-> IF q = p THEN content ELSE f[q]]

\* read_to_string(..).ok()
ReadFile(p) == IF p \in DOMAIN files THEN Some(files[p]) ELSE NoneOpt

----------------------------------------------------------------------------
(* unzip.rs: the archive extractor.  An archive is read entry by entry;    *)
(* an entry is its stored name, the size its header declares and the       *)
(* chunks its data decompresses to, each drawn when the extractor reads    *)
(* it.                                                                     *)

\* name.replace('\\', "/")
replace_backslash(name) ==
    [i \in 1..Len(name) |-> IF name[i] = "\\" THEN "/" ELSE name[i]]

\* str::split('/'): the parts between separators, empty ones included
RECURSIVE SplitAcc(_, _, _)
SplitAcc(s, cur, acc) ==
    IF s = <<>> THEN Append(acc, cur)
    ELSE IF Head(s) = "/" THEN SplitAcc(Tail(s), <<>>, Append(acc, cur))
    ELSE SplitAcc(Tail(s), Append(cur, Head(s)), acc)
split(s) == SplitAcc(s, <<>>, <<>>)

CurDir == <<".">>
ParentDir == <<".", ".">>

\* the loop of sanitize_zip_entry_path: empty and "." parts are dropped
RECURSIVE PushParts(_, _)
PushParts(parts, out) ==
    IF parts = <<>> THEN out
    ELSE IF Head(parts) = <<>> \/ Head(parts) = CurDir
         THEN PushParts(Tail(parts), out)
         ELSE PushParts(Tail(parts), Append(out, Head(parts)))

Bail(text) == [ok |-> FALSE, err |-> text, path |-> <<>>]

\* (mutant) the backslashes are not converted before the checks
sanitize_zip_entry_path_no_replace(raw) ==
    LET name == raw
        parts == split(name)
    IN  IF name # <<>> /\ name[1] = "/" THEN Bail("absolute path not allowed")
        ELSE IF ByteLen(name) >= 2 /\ as_bytes(name)[2] = ":"
             THEN Bail("drive letter path not allowed")
        ELSE IF \E i \in 1..Len(parts) : parts[i] = ParentDir
             THEN Bail("path traversal not allowed")
        ELSE IF PushParts(parts, <<>>) = <<>> THEN Bail("empty entry path")
        ELSE [ok |-> TRUE, err |-> None, path |-> PushParts(parts, <<>>)]

\* sanitize_zip_entry_path: the relative path of an entry, or an error
sanitize_zip_entry_path(raw) ==
    LET name == replace_backslash(raw)
        parts == split(name)
    IN  IF name # <<>> /\ name[1] = "/" THEN Bail("absolute path not allowed")
        ELSE IF ByteLen(name) >= 2 /\ as_bytes(name)[2] = ":"
             THEN Bail("drive letter path not allowed")
        ELSE IF \E i \in 1..Len(parts) : parts[i] = ParentDir
             THEN Bail("path traversal not allowed")
        ELSE IF PushParts(parts, <<>>) = <<>> THEN Bail("empty entry path")
        ELSE [ok |-> TRUE, err |-> None, path |-> PushParts(parts, <<>>)]

\* normalize_lexical: "." dropped, ".." pops the last component
RECURSIVE normalize_lexical_acc(_, _)
normalize_lexical_acc(p, out) ==
    IF p = <<>> THEN out
    ELSE IF Head(p) = CurDir THEN normalize_lexical_acc(Tail(p), out)
    ELSE IF Head(p) = ParentDir
         THEN normalize_lexical_acc(Tail(p),
                  IF out = <<>> THEN out ELSE SubSeq(out, 1, Len(out) - 1))
    ELSE normalize_lexical_acc(Tail(p), Append(out, Head(p)))
normalize_lexical(p) == normalize_lexical_acc(p, <<>>)

\* is_within_dir: the normalised path starts with the normalised base
is_within_dir(out_path, base) ==
    IsPrefix(normalize_lexical(base), normalize_lexical(out_path))

\* ZipFile::is_dir: the stored name ends with a separator
is_dir(name) == name # <<>> /\ name[Len(name)] \in {"/", "\\"}

\* a response: the request answered (its handler, its project name, its
\* run ID, whether it wrote and whether a write of it failed), the HTTP status code (0: the request was
\* dropped unanswered), and the status and error fields of the body
NoResponse == [kind |-> "idle", raw |-> <<>>, run_id |-> 0, wrote |-> FALSE,
               write_failed |-> FALSE,
               code |-> 0, status |-> None, error |-> None]
Response(q, code, status, error) ==
    [kind |-> q.kind, raw |-> q.raw, run_id |-> q.run_id, wrote |-> q.wrote,
     write_failed |-> q.write_failed,
     code |-> code, status |-> status, error |-> error]

\* A blocking task: its position st, its locals (len is archive.len()), and
\* its result err
IdleTask == [st |-> "idle", dest |-> <<>>, err |-> None, len |-> 0, files_count |-> 0,
             total_uncompressed |-> 0, name |-> <<>>, written |-> 0, out_path |-> <<>>]

NewTask(dest) == [IdleTask EXCEPT !.st = "queued", !.dest = dest]

\* the task's next state; the result of a task whose JoinHandle was dropped
\* with its request is dropped
SetTask(t, T) ==
    task' = [task EXCEPT ![t] = IF T.st = "done" /\ req[t].pc # "join"
                                THEN IdleTask ELSE T]

\* the task returns: the archive is dropped
Ended(T, err) == [T EXCEPT !.st = "done", !.err = err, !.len = 0]

Failed(T, text) == Ended(T, text)

\* (mutant) the number of entries is not limited
too_many_files_never(files_count) == FALSE

\* files_count > limits.max_files
too_many_files(files_count) == files_count > max_files

\* (mutant) the sizes are not limited
over_limit_never(n, limit) == FALSE

\* written > limits.max_single_file, total_uncompressed > limits.max_total_uncompressed
over_limit(n, limit) == n > limit

\* unzip_safely_blocking, up to the loop: the destination is created and
\* the archive opened
UnzipOpen(t, wellformed, len) ==
    /\ task[t].st = "queued"
    /\ response' = NoResponse
    /\ UNCHANGED <<project_locks, holder, req, reserved, arrived, files>>
    /\ IF ~CanCreateDirAll(task[t].dest)
       THEN SetTask(t, Failed(task[t], "create dest dir")) /\ UNCHANGED dirs
       ELSE /\ dirs' = dirs \cup Ancestors(task[t].dest)
            /\ IF wellformed
               THEN SetTask(t, [task[t] EXCEPT !.st = "entry", !.len = len])
               ELSE SetTask(t, Failed(task[t], "open zip"))

\* one turn of the loop over the entries, up to the creation of the
\* entry's directory or file
UnzipEntry(t, name, declared) ==
    LET T == task[t]
        rel == sanitize_zip_entry_path(name)
        out_path == T.dest \o rel.path
        counted == [T EXCEPT !.files_count = T.files_count + 1, !.name = name]
        bail(text) == SetTask(t, Failed(counted, text)) /\ UNCHANGED <<dirs, files>>
    IN  /\ T.st = "entry" /\ T.files_count < T.len
        /\ response' = NoResponse
        /\ UNCHANGED <<project_locks, holder, req, reserved, arrived>>
        /\ IF too_many_files(counted.files_count) THEN bail("zip has too many files")
           ELSE IF ~rel.ok THEN bail(rel.err)
           ELSE IF ~is_within_dir(out_path, T.dest)
                THEN bail("zip entry escapes destination")
           ELSE IF is_dir(name)
                THEN IF CanCreateDirAll(out_path)
                     THEN /\ dirs' = dirs \cup Ancestors(out_path)
                          /\ SetTask(t, counted)
                          /\ UNCHANGED files
                     ELSE bail("mkdir")
           ELSE IF declared > max_single_file THEN bail("zip entry too large")
           ELSE IF ~CanCreateDirAll(Parent(out_path)) THEN bail("mkdir")
           ELSE /\ dirs' = dirs \cup Ancestors(Parent(out_path))
                /\ IF out_path \in dirs
                   THEN SetTask(t, Failed(counted, "create")) /\ UNCHANGED files
                   ELSE /\ files' = WriteFile(files, out_path, 0)
                        /\ SetTask(t, [counted EXCEPT !.st = "file", !.written = 0,
                                                      !.out_path = out_path])

\* one turn of the read loop: n chunks read (0: the end of the entry)
UnzipChunk(t, n) ==
    LET T == task[t]
        written == T.written + n
        total == T.total_uncompressed + n
    IN  /\ T.st = "file"
        /\ response' = NoResponse
        /\ UNCHANGED <<project_locks, holder, req, reserved, arrived, dirs>>
        /\ IF n = 0
           THEN /\ SetTask(t, [T EXCEPT !.st = "entry", !.written = 0, !.out_path = <<>>])
                /\ UNCHANGED files
           ELSE IF over_limit(written, max_single_file)
                THEN /\ SetTask(t, Failed([T EXCEPT !.written = written],
                                          "zip entry exceeds max_single_file"))
                     /\ UNCHANGED files
           ELSE IF over_limit(total, max_total_uncompressed)
                THEN /\ SetTask(t, Failed([T EXCEPT !.written = written,
                                                    !.total_uncompressed = total],
                                          "zip exceeds max_total_uncompressed"))
                     /\ UNCHANGED files
           ELSE /\ SetTask(t, [T EXCEPT !.written = written,
                                        !.total_uncompressed = total])
                /\ IF T.out_path \in DOMAIN files
                   THEN files' = [files EXCEPT ![T.out_path] = @ + n]
                   ELSE UNCHANGED files

\* the JoinError of a task that panicked, with its context
JoinError == "join unzip task"

\* the closure panics: the task ends where it is, and its JoinHandle
\* yields a JoinError
UnzipPanic(t) ==
    /\ task[t].st \in {"queued", "entry", "file"}
    /\ SetTask(t, Failed(task[t], JoinError))
    /\ response' = NoResponse
    /\ UNCHANGED <<project_locks, holder, req, reserved, arrived, dirs, files>>

\* the loop ends after the last entry: Ok(())
UnzipEnd(t) ==
    /\ task[t].st = "entry" /\ task[t].files_count = task[t].len
    /\ SetTask(t, Ended(task[t], None))
    /\ response' = NoResponse
    /\ UNCHANGED <<project_locks, holder, req, reserved, arrived, dirs, files>>

----------------------------------------------------------------------------
(* storage.rs: the layout under the data root.                             *)

DataDir == << <<"data">> >>

\* the directory a path names to the file system: "." is the directory
\* itself, ".." its parent
resolve(p) == normalize_lexical_acc(p, <<>>)

\* project_dir: data_dir/projects/<project>, as the file system resolves it
project_dir(project) == resolve(DataDir \o << <<"projects">>, project >>)

\* runs_dir: <project_dir>/runs
runs_dir(project) == project_dir(project) \o << <<"runs">> >>

\* run_dir: <runs_dir>/<run_id>
run_dir(project, run_id) == runs_dir(project) \o << to_string(run_id) >>

results_dir(project, run_id) == run_dir(project, run_id) \o << <<"allure-results">> >>
report_dir(project, run_id) == run_dir(project, run_id) \o << <<"report">> >>
next_run_id_file(project) == project_dir(project) \o << <<"next_run_id">> >>
latest_run_id_file(project) == project_dir(project) \o << <<"latest_run_id">> >>
status_file(project, run_id) == run_dir(project, run_id) \o << <<"status.json">> >>
meta_file(project, run_id) == run_dir(project, run_id) \o << <<"meta.json">> >>

\* reserve_next_run_id, the read: the counter, 1 when absent or unparsable
read_current(project) ==
    LET text == ReadFile(next_run_id_file(project))
    IN  IF IsSome(text) /\ IsSome(parse_u64(Unwrap(text)))
        THEN Unwrap(parse_u64(Unwrap(text))) ELSE 1

\* (mutant) the counter is written back without the increment
next_counter_same(current) == current

\* reserve_next_run_id, the write: the text renamed over next_run_id
next_counter(current) == current + 1

\* read_latest_run_id: None when the file is absent or no number
read_latest_run_id(project) ==
    LET text == ReadFile(latest_run_id_file(project))
    IN  IF IsSome(text) THEN parse_u64(Unwrap(text)) ELSE NoneOpt

\* RunStatus: status is a String, error an Option<String>.  A String is a
\* sequence of characters; the fixed texts of the service (the status
\* names, the field names, the error texts of the handlers) are kept as one
\* symbol each, which stands for characters that JSON does not escape.
RunStatus(status, error) == [status |-> status, error |-> error]

\* (mutant) a string is written without escapes
format_escaped_char_raw(c) == <<c>>

\* serde_json, writing a string: the characters JSON escapes
format_escaped_char(c) ==
    CASE c = "\"" -> <<"\\", "\"">>
      [] c = "\\" -> <<"\\", "\\">>
      [] c = "\n" -> <<"\\", "n">>
      [] OTHER -> <<c>>

RECURSIVE format_escaped_str_contents(_)
format_escaped_str_contents(s) ==
    IF s = <<>> THEN <<>>
    ELSE format_escaped_char(Head(s)) \o format_escaped_str_contents(Tail(s))

format_escaped_str(s) == <<"\"">> \o format_escaped_str_contents(s) \o <<"\"">>

\* serde_json::to_vec_pretty of a RunStatus: the derived Serialize writes
\* the fields in the order of the struct, None as null
to_vec_pretty(v) ==
    <<"{", "\n", " ", " ">> \o format_escaped_str(<<"status">>) \o <<":", " ">>
        \o format_escaped_str(v.status) \o <<",", "\n", " ", " ">>
        \o format_escaped_str(<<"error">>) \o <<":", " ">>
        \o (IF IsSome(v.error) THEN format_escaped_str(Unwrap(v.error)) ELSE <<"null">>)
        \o <<"\n", "}">>

\* serde_json, reading a string after its opening quote: up to the closing
\* quote, an escape replaced by its character; a raw line feed, an escape
\* of no meaning and the end of the text are errors
RECURSIVE parse_str(_, _)
parse_str(s, acc) ==
    IF s = <<>> THEN [ok |-> FALSE, v |-> <<>>, rest |-> <<>>]
    ELSE IF Head(s) = "\"" THEN [ok |-> TRUE, v |-> acc, rest |-> Tail(s)]
    ELSE IF Head(s) = "\n" THEN [ok |-> FALSE, v |-> <<>>, rest |-> <<>>]
    ELSE IF Head(s) = "\\"
    THEN IF Len(s) >= 2 /\ s[2] \in {"\"", "\\", "n"}
         THEN parse_str(Tail(Tail(s)), Append(acc, IF s[2] = "n" THEN "\n" ELSE s[2]))
         ELSE [ok |-> FALSE, v |-> <<>>, rest |-> <<>>]
    ELSE parse_str(Tail(s), Append(acc, Head(s)))

\* serde_json, the tokens of a text: white space skipped; the punctuation
\* of an object, strings and null.  None when the text is no JSON of these.
RECURSIVE tokens(_, _)
tokens(s, acc) ==
    IF s = <<>> THEN Some(acc)
    ELSE IF Head(s) \in {" ", "\n"} THEN tokens(Tail(s), acc)
    ELSE IF Head(s) \in {"{", "}", ":", ",", "null"}
    THEN tokens(Tail(s), Append(acc, [t |-> Head(s), v |-> <<>>]))
    ELSE IF Head(s) = "\""
    THEN LET r == parse_str(Tail(s), <<>>)
         IN  IF r.ok THEN tokens(r.rest, Append(acc, [t |-> "str", v |-> r.v]))
             ELSE NoneOpt
    ELSE NoneOpt

\* the members of an object after its brace or a comma, up to the closing
\* brace, which ends the text
RECURSIVE members(_, _)
members(toks, acc) ==
    IF Len(toks) < 4 THEN NoneOpt
    ELSE IF toks[1].t = "str" /\ toks[2].t = ":" /\ toks[3].t \in {"str", "null"}
    THEN LET more == Append(acc, [k |-> toks[1].v, val |-> toks[3]])
         IN  IF toks[4].t = "}" THEN (IF Len(toks) = 4 THEN Some(more) ELSE NoneOpt)
             ELSE IF toks[4].t = ","
             THEN members(SubSeq(toks, 5, Len(toks)), more)
             ELSE NoneOpt
    ELSE NoneOpt

object(toks) ==
    IF Len(toks) >= 2 /\ toks[1].t = "{"
    THEN IF toks[2].t = "}" THEN (IF Len(toks) = 2 THEN Some(<<>>) ELSE NoneOpt)
         ELSE members(Tail(toks), <<>>)
    ELSE NoneOpt

\* serde_json::from_str::<RunStatus>(..).ok(): the derived Deserialize wants
\* status once and a string, takes error at most once, a missing or null
\* error as None, and ignores other fields
from_str(s) ==
    LET toks == tokens(s, <<>>)
        obj == IF IsSome(toks) THEN object(Unwrap(toks)) ELSE NoneOpt
        f == Unwrap(obj)
        st == {i \in 1..Len(f) : f[i].k = <<"status">>}
        er == {i \in 1..Len(f) : f[i].k = <<"error">>}
    IN  IF /\ IsSome(obj)
           /\ Cardinality(st) = 1 /\ Cardinality(er) <= 1
           /\ \A i \in st : f[i].val.t = "str"
        THEN Some(RunStatus(f[CHOOSE i \in st : TRUE].val.v,
                            IF er = {} \/ \A i \in er : f[i].val.t = "null"
                            THEN NoneOpt
                            ELSE Some(f[CHOOSE i \in er : TRUE].val.v)))
        ELSE NoneOpt

\* no storage write under way
NoWrite == [p |-> <<>>, tmp |-> <<>>, bytes |-> <<>>]

\* (mutant) the bytes are written into the file itself
with_extension_same(path) == path

\* path.with_extension("tmp") of status.json and meta.json
with_extension_tmp(path) ==
    SubSeq(path, 1, Len(path) - 1)
        \o << IF path[Len(path)] = <<"status.json">> THEN <<"status.tmp">>
                                                     ELSE <<"meta.tmp">> >>

\* write_json: the bytes of v go to the sibling .tmp, which is renamed
\* over path
write_json(path, v) ==
    [p |-> path, tmp |-> with_extension_tmp(path), bytes |-> to_vec_pretty(v)]

\* set_latest_run_id: latest_run_id.tmp is written and renamed over
\* latest_run_id
set_latest_run_id(project, run_id) ==
    [p |-> latest_run_id_file(project),
     tmp |-> project_dir(project) \o << <<"latest_run_id.tmp">> >>,
     bytes |-> to_string(run_id)]

\* reserve_next_run_id: next_run_id.tmp is written with current + 1 and
\* renamed over next_run_id
reserve_next_run_id(project) ==
    [p |-> next_run_id_file(project),
     tmp |-> project_dir(project) \o << <<"next_run_id.tmp">> >>,
     bytes |-> to_string(next_counter(read_current(project)))]

\* read_run_status: None when status.json is absent or unparsable
read_run_status(project, run_id) ==
    LET s == ReadFile(status_file(project, run_id))
    IN  IF IsSome(s) THEN from_str(Unwrap(s)) ELSE NoneOpt

\* the names of the directories that are entries of the directory at p
\* (read_dir, file_type().is_dir(), file_name().to_str())
dir_entries(p) == {q[Len(q)] : q \in {d \in dirs : Len(d) > 0 /\ Parent(d) = p}}

\* Vec<String>::sort: the names in ascending order
RECURSIVE sort(_)
sort(names) ==
    IF names = {} THEN <<>>
    ELSE LET first == CHOOSE n \in names : \A m \in names : ~str_lt(m, n)
         IN  <<first>> \o sort(names \ {first})

\* Vec<u64>::sort_unstable of the numbers the names parse as, a number
\* once for every name that parses as it
RECURSIVE sort_unstable(_)
sort_unstable(names) ==
    IF names = {} THEN <<>>
    ELSE LET first == CHOOSE n \in names :
                          \A m \in names : Unwrap(parse_u64(n)) <= Unwrap(parse_u64(m))
         IN  <<Unwrap(parse_u64(first))>> \o sort_unstable(names \ {first})

Range(s) == {s[i] : i \in 1..Len(s)}

\* list_projects: the directories under projects/, every name kept, sorted;
\* empty when projects/ is absent
list_projects == sort(dir_entries(DataDir \o << <<"projects">> >>))

\* list_run_ids, the filter: the name parses as u64
parses(name) == IsSome(parse_u64(name))

\* list_run_ids: the sub-directories of runs/ whose names parse as u64,
\* sorted; empty when runs/ is absent
list_run_ids(project) ==
    sort_unstable({n \in dir_entries(runs_dir(project)) : parses(n)})

----------------------------------------------------------------------------
(* state.rs: the registry of per-project mutexes.  An entry holds the      *)
(* serial number of the mutex made for the name; the handle of a mutex is  *)
(* the pair <<name, serial>>.                                              *)

\* (mutant) a new mutex is inserted on every call
project_lock_insert(name) == project_locks[name] + 1

\* AppState::project_lock: entry(name).or_insert_with(new mutex).clone()
project_lock(name) == IF project_locks[name] = 0 THEN 1 ELSE project_locks[name]

\* (mutant) the mutex is taken without waiting for it to be free
MutexFreeAlways(handle) == TRUE

\* tokio Mutex::lock can complete: nobody holds the guard
MutexFree(handle) == \A g \in holder : g.handle # handle

Holds(r) == \E g \in holder : g.by = r

\* (mutant) the guard outlives the handler
Release_never(r) == holder

\* dropping _guard
Release(r) == {g \in holder : g.by # r}

----------------------------------------------------------------------------
(* handlers/api.rs: the requests.  A request slot runs one handler at a    *)
(* time; pc names the await the handler is suspended at.                   *)

Slots == 1..NumSlots

LongName == [i \in 1..(MaxProjectNameLen + 1) |-> "a"]

\* the project names of the model: two valid ones, the name of a dot, an
\* empty one, two with a character that is not allowed, and an over-long one
RawNames == {<<"a">>, <<"b">>, <<".">>, <<>>, <<"a", "/">>, <<"é">>, LongName}

\* the project names requests arrive with in Spec
SpecNames == RawNames \ {<<"b">>, <<".">>}

\* the multipart body of an upload, read from the request's stream in
\* upload_run's loop: the 'results' field and the 'meta' field
Bodies == [results : {"present", "missing", "unreadable"},
           meta : {"absent", "valid", "malformed"}]
NoBody == [results |-> "none", meta |-> "none"]

\* the entry names the archives of uploads are made of in Spec: an archive
\* is empty or has an entry that is refused
UploadEntryNames == {<<".", ".", "/", "a">>}
UploadArchiveLens == {0, 1}

\* A slot: the handler's arguments and locals, and its position pc.
\* wrote is history: the request has changed a directory or a file;
\* write_failed is history: a storage write of the request has failed.
\* write is the storage write the handler is in the middle of: the path p
\* it replaces, the sibling tmp it writes and the bytes it writes there.
IdleReq == [kind |-> "idle", pc |-> "idle", raw |-> <<>>, project |-> NoneOpt,
            lock |-> 0, run_id |-> 0, current |-> 0, body |-> NoBody,
            err |-> None, latest |-> NoneOpt, wrote |-> FALSE,
            write_failed |-> FALSE, write |-> NoWrite]

\* the project names as sanitize_name maps them
Sanitized == [n \in RawNames |-> sanitize_name(n)]

Project(r) == Unwrap(req[r].project)
Guard(r) == [handle |-> <<Project(r), req[r].lock>>, by |-> r]

\* the handler returns: the response is sent, _guard and the other locals
\* are dropped
\* (ok: the storage write of the step, if any, succeeded)
ReturnAfter(r, ok, code, status, error) ==
    /\ req' = [req EXCEPT ![r] = IdleReq]
    /\ holder' = Release(r)
    /\ response' = Response([req[r] EXCEPT !.wrote = @ \/ dirs' # dirs \/ files' # files,
                                           !.write_failed = @ \/ ~ok],
                            code, status, error)

Return(r, code, status, error) == ReturnAfter(r, TRUE, code, status, error)

\* the handler runs on to its next await
GotoAfter(r, ok, pc) ==
    /\ req' = [req EXCEPT ![r].pc = pc,
                          ![r].wrote = @ \/ dirs' # dirs \/ files' # files,
                          ![r].write_failed = @ \/ ~ok]
    /\ response' = NoResponse

Goto(r, pc) == GotoAfter(r, TRUE, pc)

\* A request arrives: sanitize_name, then (but for list_runs) project_lock,
\* up to the await of lock()
Enter(r, kind, raw, run_id) ==
    LET project == Sanitized[raw]
        fresh == [IdleReq EXCEPT !.kind = kind, !.raw = raw, !.project = project,
                                 !.run_id = run_id]
    IN  /\ req[r].pc = "idle"
        /\ task[r].st = "idle"
        /\ arrived < MaxRequests
        /\ arrived' = arrived + 1
        /\ UNCHANGED <<dirs, files, holder, reserved, task>>
        /\ IF ~IsSome(project)
           THEN /\ UNCHANGED <<req, project_locks>>
                /\ response' = Response(fresh, 400, None, "Invalid project")
           ELSE IF kind = "list_runs"
           THEN /\ req' = [req EXCEPT ![r] = [fresh EXCEPT !.pc = "list"]]
                /\ response' = NoResponse
                /\ UNCHANGED project_locks
           ELSE /\ response' = NoResponse
                /\ project_locks' = [project_locks EXCEPT
                                        ![Unwrap(project)] = project_lock(Unwrap(project))]
                /\ req' = [req EXCEPT ![r] = [fresh EXCEPT !.pc = "lock",
                                 !.lock = project_lock(Unwrap(project))]]

UploadArrives(r, raw) == Enter(r, "upload_run", raw, 0)

RegenerateArrives(r, raw, run_id) == Enter(r, "regenerate_run", raw, run_id)

DeleteArrives(r, raw) == Enter(r, "delete_project", raw, 0)

ListRunsArrives(r, raw) == Enter(r, "list_runs", raw, 0)

\* lock.lock().await completes
Lock(r) ==
    /\ req[r].pc = "lock"
    /\ MutexFree(Guard(r).handle)
    /\ holder' = holder \cup {Guard(r)}
    /\ UNCHANGED <<dirs, files, project_locks, task, reserved, arrived>>
    /\ Goto(r, CASE req[r].kind = "upload_run" -> "ensure"
                 [] req[r].kind = "regenerate_run" -> "rm_report"
                 [] req[r].kind = "delete_project" -> "delete")

\* The request is dropped at the await it is suspended at (the client went
\* away): the handler's locals, _guard among them, are dropped; a blocking
\* task it dispatched runs on.
Abort(r) ==
    /\ req[r].pc # "idle"
    /\ req' = [req EXCEPT ![r] = IdleReq]
    /\ response' = Response(req[r], 0, None, "aborted")
    /\ holder' = Release(r)
    /\ task' = [task EXCEPT ![r] = IF @.st = "done" THEN IdleTask ELSE @]
    /\ UNCHANGED <<dirs, files, project_locks, reserved, arrived>>

----------------------------------------------------------------------------
(* upload_run.  io is the outcome of the storage operation of the step:    *)
(* FALSE is an I/O error (disk full, permission denied).  A file is        *)
(* written to a sibling .tmp and renamed into place; the step is the       *)
(* rename; the steps before it and the .tmp files are those of SpecWrite.  *)

\* storage::ensure_project_dirs
UploadEnsure(r, io) ==
    /\ req[r].kind = "upload_run" /\ req[r].pc = "ensure"
    /\ UNCHANGED <<files, project_locks, task, reserved, arrived>>
    /\ IF io /\ CanCreateDirAll(runs_dir(Project(r)))
       THEN /\ dirs' = dirs \cup Ancestors(runs_dir(Project(r)))
            /\ Goto(r, "reserve_read")
            /\ UNCHANGED holder
       ELSE /\ UNCHANGED dirs
            /\ ReturnAfter(r, FALSE, 500, None, "ensure project dirs")

\* storage::reserve_next_run_id: read_to_string of next_run_id
UploadReserveRead(r) ==
    /\ req[r].kind = "upload_run" /\ req[r].pc = "reserve_read"
    /\ req' = [req EXCEPT ![r].pc = "reserve_write",
                          ![r].current = read_current(Project(r))]
    /\ response' = NoResponse
    /\ UNCHANGED <<dirs, files, project_locks, holder, task, reserved, arrived>>

\* storage::reserve_next_run_id: current + 1 written and renamed, Ok(current)
UploadReserveWrite(r, io) ==
    LET f == next_run_id_file(Project(r))
    IN  /\ req[r].kind = "upload_run" /\ req[r].pc = "reserve_write"
        /\ UNCHANGED <<dirs, project_locks, task, arrived>>
        /\ IF io /\ CanCreateFile(f)
           THEN /\ files' = WriteFile(files, f, to_string(next_counter(req[r].current)))
                /\ req' = [req EXCEPT ![r].pc = "mkdir", ![r].run_id = req[r].current,
                                      ![r].wrote = TRUE]
                /\ response' = NoResponse
                /\ reserved' = [reserved EXCEPT
                                   ![Project(r)] = Append(@, req[r].current)]
                /\ UNCHANGED holder
           ELSE /\ UNCHANGED <<files, reserved>>
                /\ ReturnAfter(r, FALSE, 500, None, "reserve next_run_id")

\* create_dir_all(results_dir)
UploadMkdir(r, io) ==
    LET d == results_dir(Project(r), req[r].run_id)
    IN  /\ req[r].kind = "upload_run" /\ req[r].pc = "mkdir"
        /\ UNCHANGED <<files, project_locks, task, reserved, arrived>>
        /\ IF io /\ CanCreateDirAll(d)
           THEN /\ dirs' = dirs \cup Ancestors(d)
                /\ Goto(r, "multipart")
                /\ UNCHANGED holder
           ELSE /\ UNCHANGED dirs
                /\ ReturnAfter(r, FALSE, 500, None, "mkdir results_dir")

\* the loop over the multipart fields, and the check for 'results'
UploadMultipart(r, body) ==
    /\ req[r].kind = "upload_run" /\ req[r].pc = "multipart"
    /\ UNCHANGED <<dirs, files, project_locks, task, reserved, arrived>>
    /\ IF body.results = "unreadable"
       THEN /\ Return(r, 400, None, "read results")
       ELSE IF body.results = "missing"
       THEN /\ Return(r, 400, None, "Missing multipart field 'results'")
       ELSE /\ req' = [req EXCEPT ![r].pc = "meta", ![r].body = body]
            /\ response' = NoResponse
            /\ UNCHANGED holder

\* the Meta written: the parsed 'meta' field, Meta::default() when the
\* field is absent or does not parse
MetaOf(body) == IF body.meta = "valid" THEN "given" ELSE "default"

\* write_json(meta.json), then unzip_safely up to the await of the
\* spawn_blocking task
UploadMeta(r, io) ==
    LET f == meta_file(Project(r), req[r].run_id)
    IN  /\ req[r].kind = "upload_run" /\ req[r].pc = "meta"
        /\ UNCHANGED <<dirs, project_locks, reserved, arrived>>
        /\ IF io /\ CanCreateFile(f)
           THEN /\ files' = WriteFile(files, f, MetaOf(req[r].body))
                /\ task' = [task EXCEPT
                               ![r] = NewTask(results_dir(Project(r), req[r].run_id))]
                /\ Goto(r, "join")
                /\ UNCHANGED holder
           ELSE /\ UNCHANGED <<files, task>>
                /\ ReturnAfter(r, FALSE, 500, None, "write meta.json")

\* the spawn_blocking task is joined
UploadJoin(r) ==
    /\ req[r].kind = "upload_run" /\ req[r].pc = "join"
    /\ task[r].st = "done"
    /\ task' = [task EXCEPT ![r] = IdleTask]
    /\ req' = [req EXCEPT ![r].pc = IF task[r].err = None THEN "render" ELSE "bad_zip",
                          ![r].err = task[r].err]
    /\ response' = NoResponse
    /\ UNCHANGED <<dirs, files, project_locks, holder, reserved, arrived>>

\* let _ = write_json(status.json): the file written, an error dropped
StatusWritten(r, io) == io /\ CanCreateFile(status_file(Project(r), req[r].run_id))

WriteStatus(r, io, st) ==
    LET f == status_file(Project(r), req[r].run_id)
    IN  IF io /\ CanCreateFile(f)
        THEN files' = WriteFile(files, f, to_vec_pretty(st))
        ELSE UNCHANGED files

\* the error texts of unzip_safely_blocking
UnzipErrors == {"create dest dir", "open zip", "zip has too many files",
                "absolute path not allowed", "drive letter path not allowed",
                "path traversal not allowed", "empty entry path",
                "zip entry escapes destination", "mkdir", "zip entry too large",
                "create", "zip entry exceeds max_single_file",
                "zip exceeds max_total_uncompressed"}

\* format!("bad zip: {e}")
bad_zip(e) ==
    CASE e = "create dest dir" -> "bad zip: create dest dir"
      [] e = "open zip" -> "bad zip: open zip"
      [] e = "zip has too many files" -> "bad zip: zip has too many files"
      [] e = "absolute path not allowed" -> "bad zip: absolute path not allowed"
      [] e = "drive letter path not allowed" -> "bad zip: drive letter path not allowed"
      [] e = "path traversal not allowed" -> "bad zip: path traversal not allowed"
      [] e = "empty entry path" -> "bad zip: empty entry path"
      [] e = "zip entry escapes destination" -> "bad zip: zip entry escapes destination"
      [] e = "mkdir" -> "bad zip: mkdir"
      [] e = "zip entry too large" -> "bad zip: zip entry too large"
      [] e = "create" -> "bad zip: create"
      [] e = "zip entry exceeds max_single_file"
            -> "bad zip: zip entry exceeds max_single_file"
      [] e = "zip exceeds max_total_uncompressed"
            -> "bad zip: zip exceeds max_total_uncompressed"
      [] e = JoinError -> "bad zip: join unzip task"

\* the extraction failed: status failed written, 400 "bad zip: {e}"
UploadBadZip(r, io) ==
    /\ req[r].kind = "upload_run" /\ req[r].pc = "bad_zip"
    /\ UNCHANGED <<dirs, project_locks, task, reserved, arrived>>
    /\ WriteStatus(r, io, RunStatus(<<"failed">>, Some(<<bad_zip(req[r].err)>>)))
    /\ ReturnAfter(r, StatusWritten(r, io), 400, None, bad_zip(req[r].err))

\* allure::generate_report: the results directory must exist, the report
\* directory is made, and the renderer runs and succeeds or fails (the
\* files of the report are not kept in the model)
Render(r, rendered) ==
    LET res == results_dir(Project(r), req[r].run_id)
        rep == report_dir(Project(r), req[r].run_id)
        failed(text) ==
            /\ req' = [req EXCEPT ![r].pc = "status_failed", ![r].err = text,
                                  ![r].wrote = @ \/ dirs' # dirs,
                                  ![r].write_failed = @ \/ text = "create report dir"]
            /\ response' = NoResponse
    IN  /\ req[r].kind \in {"upload_run", "regenerate_run"} /\ req[r].pc = "render"
        /\ UNCHANGED <<project_locks, holder, task, reserved, arrived>>
        /\ IF res \notin dirs
           THEN UNCHANGED <<dirs, files>> /\ failed("results_dir does not exist")
           ELSE IF ~CanCreateDirAll(rep)
           THEN UNCHANGED <<dirs, files>> /\ failed("create report dir")
           ELSE /\ dirs' = dirs \cup Ancestors(rep)
                /\ UNCHANGED files
                /\ IF rendered
                   THEN Goto(r, "status_ok")
                   ELSE failed("allure generate failed")

\* Ok(()): status success written
StatusOk(r, io) ==
    /\ req[r].kind \in {"upload_run", "regenerate_run"} /\ req[r].pc = "status_ok"
    /\ UNCHANGED <<dirs, project_locks, holder, task, reserved, arrived>>
    /\ WriteStatus(r, io, RunStatus(<<"success">>, NoneOpt))
    /\ GotoAfter(r, StatusWritten(r, io),
                 IF req[r].kind = "upload_run" THEN "set_latest" ELSE "read_latest")

\* storage::set_latest_run_id; an error is logged (upload_run) or dropped
\* (regenerate_run), and the response is 200 success
SetLatest(r, io) ==
    LET f == latest_run_id_file(Project(r))
    IN  /\ req[r].kind \in {"upload_run", "regenerate_run"} /\ req[r].pc = "set_latest"
        /\ UNCHANGED <<dirs, project_locks, task, reserved, arrived>>
        /\ IF io /\ CanCreateFile(f)
           THEN files' = WriteFile(files, f, to_string(req[r].run_id))
           ELSE UNCHANGED files
        /\ ReturnAfter(r, io /\ CanCreateFile(f), 200, "success", None)

\* Err(e): status failed written, 500 with status failed
StatusFailed(r, io) ==
    /\ req[r].kind \in {"upload_run", "regenerate_run"} /\ req[r].pc = "status_failed"
    /\ UNCHANGED <<dirs, project_locks, task, reserved, arrived>>
    /\ WriteStatus(r, io, RunStatus(<<"failed">>, Some(<<req[r].err>>)))
    /\ ReturnAfter(r, StatusWritten(r, io), 500, "failed", req[r].err)

----------------------------------------------------------------------------
(* regenerate_run, delete_project, list_runs                               *)

\* let _ = remove_dir_all(report_dir)
RegenerateRemoveReport(r) ==
    LET rep == report_dir(Project(r), req[r].run_id)
    IN  /\ req[r].kind = "regenerate_run" /\ req[r].pc = "rm_report"
        /\ dirs' = Outside(dirs, rep)
        /\ files' = Restrict(files, Outside(DOMAIN files, rep))
        /\ Goto(r, "render")
        /\ UNCHANGED <<project_locks, holder, task, reserved, arrived>>

\* (mutant) the run is made the latest whatever the pointer holds
may_set_latest_always(latest, run_id) == TRUE

\* latest.is_none() || latest == Some(run_id)
may_set_latest(latest, run_id) == latest = NoneOpt \/ latest = Some(run_id)

\* read_latest_run_id and the test of the pointer
RegenerateReadLatest(r) ==
    LET latest == read_latest_run_id(Project(r))
    IN  /\ req[r].kind = "regenerate_run" /\ req[r].pc = "read_latest"
        /\ UNCHANGED <<dirs, files, project_locks, task, reserved, arrived>>
        /\ IF may_set_latest(latest, req[r].run_id)
           THEN /\ req' = [req EXCEPT ![r].pc = "set_latest", ![r].latest = latest]
                /\ response' = NoResponse
                /\ UNCHANGED holder
           ELSE Return(r, 200, "success", None)

\* storage::delete_project: remove_dir_all, NotFound is Ok.  remove_dir_all
\* removes what the directory holds and then the directory, which fails for
\* a path that ends in "." (rmdir: EINVAL) when the directory is there.
DeleteProject(r, io) ==
    LET pdir == project_dir(Project(r))
    IN  /\ req[r].kind = "delete_project" /\ req[r].pc = "delete"
        /\ UNCHANGED <<project_locks, task, arrived>>
        /\ IF io /\ Project(r) = CurDir /\ pdir \in dirs
           THEN /\ dirs' = Outside(dirs, pdir) \cup {d \in dirs : d = pdir}
                /\ files' = Restrict(files, Outside(DOMAIN files, pdir))
                /\ reserved' = [reserved EXCEPT ![Project(r)] = <<>>]
                /\ ReturnAfter(r, FALSE, 500, None, "delete project")
           ELSE IF io
           THEN /\ dirs' = Outside(dirs, pdir)
                /\ files' = Restrict(files, Outside(DOMAIN files, pdir))
                /\ reserved' = [reserved EXCEPT ![Project(r)] = <<>>]
                /\ Return(r, 200, None, None)
           ELSE /\ UNCHANGED <<dirs, files, reserved>>
                /\ ReturnAfter(r, FALSE, 500, None, "delete project")

\* list_runs: list_run_ids, then read_run_status of each run
ListRuns(r) ==
    /\ req[r].kind = "list_runs" /\ req[r].pc = "list"
    /\ UNCHANGED <<dirs, files, project_locks, task, reserved, arrived>>
    /\ Return(r, 200, None, None)

----------------------------------------------------------------------------
(* The specification of the service.                                       *)

Init ==
    /\ dirs = Ancestors(DataDir)
    /\ files = << >>
    /\ project_locks = [n \in RawNames |-> 0]
    /\ holder = {}
    /\ req = [r \in Slots |-> IdleReq]
    /\ task = [r \in Slots |-> IdleTask]
    /\ reserved = [n \in RawNames |-> <<>>]
    /\ arrived = 0
    /\ response = NoResponse

Next ==
    \/ \E r \in Slots, raw \in SpecNames : UploadArrives(r, raw)
    \/ \E r \in Slots, raw \in SpecNames, id \in 1..MaxRunId : RegenerateArrives(r, raw, id)
    \/ \E r \in Slots, raw \in SpecNames : DeleteArrives(r, raw)
    \/ \E r \in Slots, raw \in SpecNames : ListRunsArrives(r, raw)
    \/ \E r \in Slots : Lock(r)
    \/ \E r \in Slots : Abort(r)
    \/ \E r \in Slots, io \in BOOLEAN : UploadEnsure(r, io)
    \/ \E r \in Slots : UploadReserveRead(r)
    \/ \E r \in Slots, io \in BOOLEAN : UploadReserveWrite(r, io)
    \/ \E r \in Slots, io \in BOOLEAN : UploadMkdir(r, io)
    \/ \E r \in Slots, body \in Bodies : UploadMultipart(r, body)
    \/ \E r \in Slots, io \in BOOLEAN : UploadMeta(r, io)
    \/ \E r \in Slots : UploadJoin(r)
    \/ \E r \in Slots, io \in BOOLEAN : UploadBadZip(r, io)
    \/ \E r \in Slots, rendered \in BOOLEAN : Render(r, rendered)
    \/ \E r \in Slots, io \in BOOLEAN : StatusOk(r, io)
    \/ \E r \in Slots, io \in BOOLEAN : SetLatest(r, io)
    \/ \E r \in Slots, io \in BOOLEAN : StatusFailed(r, io)
    \/ \E r \in Slots : RegenerateRemoveReport(r)
    \/ \E r \in Slots : RegenerateReadLatest(r)
    \/ \E r \in Slots, io \in BOOLEAN : DeleteProject(r, io)
    \/ \E r \in Slots : ListRuns(r)
    \/ \E t \in Slots, wellformed \in BOOLEAN, len \in UploadArchiveLens :
           UnzipOpen(t, wellformed, len)
    \/ \E t \in Slots, name \in UploadEntryNames : UnzipEntry(t, name, 0)
    \/ \E t \in Slots : UnzipEnd(t)

Spec == Init /\ [][Next]_vars

----------------------------------------------------------------------------
(* The specification of one extraction: the first upload to project "a"    *)
(* has dispatched unzip_safely and awaits it; the archive is any sequence  *)
(* of entries with names of up to MaxNameLen characters.                   *)

\* the characters of entry names: a letter, the separators, the dot, the
\* colon and a character of more than one byte
NameChars == {"a", "/", "\\", ".", ":", "é"}

EntryNames == UNION {[1..n -> NameChars] : n \in 0..MaxNameLen}

\* the longest archive: one entry more than the limit
MaxEntries == max_files + 1

UnzipProject == <<"a">>
UnzipDest == results_dir(UnzipProject, 1)

\* what the upload made before it dispatched the task
UnzipInitDirs == Ancestors(runs_dir(UnzipProject)) \cup Ancestors(UnzipDest)
UnzipInitFiles == {next_run_id_file(UnzipProject), meta_file(UnzipProject, 1)}

InitUnzip ==
    /\ dirs = UnzipInitDirs
    /\ files = [f \in UnzipInitFiles |->
                   IF f = next_run_id_file(UnzipProject) THEN to_string(2) ELSE "default"]
    /\ project_locks = [n \in RawNames |-> IF n = UnzipProject THEN 1 ELSE 0]
    /\ holder = {[handle |-> <<UnzipProject, 1>>, by |-> 1]}
    /\ req = [r \in Slots |->
                 IF r = 1
                 THEN [IdleReq EXCEPT !.kind = "upload_run", !.pc = "join",
                                      !.raw = UnzipProject, !.project = Some(UnzipProject),
                                      !.lock = 1, !.run_id = 1, !.current = 1,
                                      !.body = [results |-> "present", meta |-> "absent"],
                                      !.wrote = TRUE]
                 ELSE IdleReq]
    /\ task = [r \in Slots |-> IF r = 1 THEN NewTask(UnzipDest) ELSE IdleTask]
    /\ reserved = [n \in RawNames |-> IF n = UnzipProject THEN <<1>> ELSE <<>>]
    /\ arrived = 1
    /\ response = NoResponse

NextUnzip ==
    \/ \E wellformed \in BOOLEAN, len \in 0..MaxEntries : UnzipOpen(1, wellformed, len)
    \/ \E name \in EntryNames, declared \in 0..(max_single_file + 1) :
           UnzipEntry(1, name, declared)
    \/ \E n \in 0..(max_single_file + 1) : UnzipChunk(1, n)
    \/ UnzipEnd(1)

SpecUnzip == InitUnzip /\ [][NextUnzip]_vars

----------------------------------------------------------------------------
(* The specification of the status record: status.json of run 1 of         *)
(* project "a" is absent or holds a text that is no RunStatus; any status  *)
(* value is written with write_json, and list_runs reads the file with     *)
(* read_run_status.                                                        *)

\* the characters of error texts: letters, the quote, the backslash and
\* the line feed
StatusChars == {"a", "n", "\"", "\\", "\n"}

StatusValues ==
    [status : {<<"success">>, <<"failed">>},
     error : {NoneOpt} \cup {Some(e) : e \in UNION {[1..n -> StatusChars] : n \in 0..MaxErrorLen}}]

StatusProject == <<"a">>
StatusPath == status_file(StatusProject, 1)

\* the texts before the last character of a text
ProperPrefixes(text) == {SubSeq(text, 1, n) : n \in 0..(Len(text) - 1)}

\* texts that are no RunStatus: the truncations of a written status, an
\* object without status, a status that is null, a status given twice, text
\* after the object, and a text that is not an object
Unparsable ==
    ProperPrefixes(to_vec_pretty(RunStatus(<<"failed">>, Some(<<"a", "\"">>))))
        \cup ProperPrefixes(to_vec_pretty(RunStatus(<<"success">>, NoneOpt)))
        \cup {<<"{", "}">>,
              <<"{", "\"", "error", "\"", ":", "null", "}">>,
              <<"{", "\"", "status", "\"", ":", "null", "}">>,
              <<"{", "\"", "status", "\"", ":", "\"", "a", "\"", ",",
                    "\"", "status", "\"", ":", "\"", "a", "\"", "}">>,
              <<"{", "\"", "status", "\"", ":", "\"", "a", "\"", "}", "}">>,
              <<"null">>, <<"a">>}

InitStatus ==
    /\ dirs = Ancestors(run_dir(StatusProject, 1))
    /\ files \in {<< >>} \cup {WriteFile(<< >>, StatusPath, text) : text \in Unparsable}
    /\ project_locks = [n \in RawNames |-> 0]
    /\ holder = {}
    /\ req = [r \in Slots |-> IdleReq]
    /\ task = [r \in Slots |-> IdleTask]
    /\ reserved = [n \in RawNames |-> <<>>]
    /\ arrived = 0
    /\ response = NoResponse

\* storage::write_json(status.json, v)
WriteJson(v) ==
    /\ files' = WriteFile(files, StatusPath, to_vec_pretty(v))
    /\ response' = NoResponse
    /\ UNCHANGED <<dirs, project_locks, holder, req, task, reserved, arrived>>

\* list_runs, the RunItem of a run: the status and the error of the
\* RunStatus that read_run_status returns, both None when it returns None
RunItem(project, run_id) ==
    LET st == read_run_status(project, run_id)
    IN  [NoResponse EXCEPT !.kind = "list_runs", !.raw = project, !.run_id = run_id,
                           !.code = 200,
                           !.status = IF IsSome(st) THEN Some(Unwrap(st).status) ELSE NoneOpt,
                           !.error = IF IsSome(st) THEN Unwrap(st).error ELSE NoneOpt]

ReadRunStatus(project, run_id) ==
    /\ response' = RunItem(project, run_id)
    /\ UNCHANGED <<dirs, files, project_locks, holder, req, task, reserved, arrived>>

NextStatus ==
    \/ \E v \in StatusValues : WriteJson(v)
    \/ ReadRunStatus(StatusProject, 1)

SpecStatus == InitStatus /\ [][NextStatus]_vars

----------------------------------------------------------------------------
(* The specification of the storage writes: a handler that holds the guard *)
(* of project "a" writes latest_run_id, next_run_id and status.json of run *)
(* 1, each write in the steps of the code (File::create of the .tmp,       *)
(* write_all in as many writes as the system takes, rename); ui_latest and *)
(* list_runs, which take no guard, read the files between any two steps.   *)

WriteProject == <<"a">>

\* the run IDs set_latest_run_id is called with: one and two digits
WriteRunIds == {2, 10}

\* the status values write_json is called with
WriteStatusValues == {RunStatus(<<"success">>, NoneOpt),
                      RunStatus(<<"failed">>, Some(<<"open zip">>))}

\* the counter the project starts with, and the last one that is reserved
FirstCounter == 9
LastCounter == 11

\* the files readers read
Targets == {latest_run_id_file(WriteProject), next_run_id_file(WriteProject),
            status_file(WriteProject, 1)}

\* the storage writes of the handler
Writes ==
    {set_latest_run_id(WriteProject, id) : id \in WriteRunIds}
        \cup {write_json(status_file(WriteProject, 1), v) : v \in WriteStatusValues}
        \cup (IF read_current(WriteProject) < LastCounter
              THEN {reserve_next_run_id(WriteProject)} ELSE {})

InitWrite ==
    /\ dirs = Ancestors(run_dir(WriteProject, 1))
    /\ files = WriteFile(<< >>, next_run_id_file(WriteProject), to_string(FirstCounter))
    /\ project_locks = [n \in RawNames |-> IF n = WriteProject THEN 1 ELSE 0]
    /\ holder = {[handle |-> <<WriteProject, 1>>, by |-> 1]}
    /\ req = [r \in Slots |->
                 IF r = 1
                 THEN [IdleReq EXCEPT !.kind = "upload_run", !.pc = "storage",
                                      !.raw = WriteProject, !.project = Some(WriteProject),
                                      !.lock = 1, !.run_id = 1, !.wrote = TRUE]
                 ELSE IdleReq]
    /\ task = [r \in Slots |-> IdleTask]
    /\ reserved = [n \in RawNames |-> <<>>]
    /\ arrived = 1
    /\ response = NoResponse

\* fs::File::create(&tmp): the .tmp is created, or truncated when an earlier
\* write left it behind
FileCreate(r, w) ==
    /\ req[r].pc = "storage" /\ req[r].write = NoWrite
    /\ Guard(r) \in holder
    /\ CanCreateFile(w.tmp)
    /\ files' = WriteFile(files, w.tmp, <<>>)
    /\ req' = [req EXCEPT ![r].write = w]
    /\ response' = NoResponse
    /\ UNCHANGED <<dirs, project_locks, holder, task, reserved, arrived>>

\* f.write_all(bytes): one write of the next n bytes
FileWrite(r, n) ==
    LET w == req[r].write
        done == Len(files[w.tmp])
    IN  /\ req[r].pc = "storage" /\ w # NoWrite
        /\ done + n <= Len(w.bytes)
        /\ files' = WriteFile(files, w.tmp, SubSeq(w.bytes, 1, done + n))
        /\ response' = NoResponse
        /\ UNCHANGED <<dirs, project_locks, holder, req, task, reserved, arrived>>

\* f.flush(), drop(f), fs::rename(&tmp, &p): the .tmp replaces the file
FileRename(r) ==
    LET w == req[r].write
    IN  /\ req[r].pc = "storage" /\ w # NoWrite
        /\ files[w.tmp] = w.bytes
        /\ files' = [q \in (DOMAIN files \ {w.tmp}) \cup {w.p} |->
                         IF q = w.p THEN files[w.tmp] ELSE files[q]]
        /\ req' = [req EXCEPT ![r].write = NoWrite]
        /\ response' = NoResponse
        /\ UNCHANGED <<dirs, project_locks, holder, task, reserved, arrived>>

\* a step of the write fails (the ? returns), or the request is dropped in
\* the middle of it: the .tmp stays as it is
FileError(r) ==
    /\ req[r].pc = "storage" /\ req[r].write # NoWrite
    /\ req' = [req EXCEPT ![r].write = NoWrite, ![r].write_failed = TRUE]
    /\ response' = NoResponse
    /\ UNCHANGED <<dirs, files, project_locks, holder, task, reserved, arrived>>

\* ui_latest: read_latest_run_id without the guard; a redirect to the run,
\* or 404 when there is none
UiLatest(project) ==
    LET run_id == read_latest_run_id(project)
    IN  /\ response' = IF IsSome(run_id)
                       THEN [NoResponse EXCEPT !.kind = "ui_latest", !.raw = project,
                                               !.code = 307, !.run_id = Unwrap(run_id)]
                       ELSE [NoResponse EXCEPT !.kind = "ui_latest", !.raw = project,
                                               !.code = 404, !.error = "No runs yet"]
        /\ UNCHANGED <<dirs, files, project_locks, holder, req, task, reserved, arrived>>

NextWrite ==
    \/ \E w \in Writes : FileCreate(1, w)
    \/ \E n \in 1..Len(req[1].write.bytes) : FileWrite(1, n)
    \/ FileRename(1)
    \/ FileError(1)
    \/ UiLatest(WriteProject)
    \/ ReadRunStatus(WriteProject, 1)

SpecWrite == InitWrite /\ [][NextWrite]_vars

----------------------------------------------------------------------------
(* The specification of two projects: regenerate_run of run 1 of project   *)
(* "a" holds the guard of "a" and awaits a renderer that never returns;    *)
(* uploads, regenerations and deletions of other projects arrive and are   *)
(* not dropped by their clients.  The runtime polls a handler that can     *)
(* go on and runs a blocking task that was dispatched, and the renderer of *)
(* the other projects returns: weak fairness of their steps.               *)

StuckProject == <<"a">>

\* the names of the other projects
OtherNames == {<<"b">>, <<".">>}

InitTwo ==
    /\ dirs = Ancestors(results_dir(StuckProject, 1))
    /\ files = [f \in {next_run_id_file(StuckProject), latest_run_id_file(StuckProject),
                       meta_file(StuckProject, 1), status_file(StuckProject, 1)} |->
                   IF f = next_run_id_file(StuckProject) THEN to_string(2)
                   ELSE IF f = latest_run_id_file(StuckProject) THEN to_string(1)
                   ELSE IF f = meta_file(StuckProject, 1) THEN "default"
                   ELSE to_vec_pretty(RunStatus(<<"success">>, NoneOpt))]
    /\ project_locks = [n \in RawNames |-> IF n = StuckProject THEN 1 ELSE 0]
    /\ holder = {[handle |-> <<StuckProject, 1>>, by |-> 1]}
    /\ req = [r \in Slots |->
                 IF r = 1
                 THEN [IdleReq EXCEPT !.kind = "regenerate_run", !.pc = "render",
                                      !.raw = StuckProject, !.project = Some(StuckProject),
                                      !.lock = 1, !.run_id = 1]
                 ELSE IdleReq]
    /\ task = [r \in Slots |-> IdleTask]
    /\ reserved = [n \in RawNames |-> IF n = StuckProject THEN <<1>> ELSE <<>>]
    /\ arrived = 1
    /\ response = NoResponse

\* a request for another project arrives
ArrivesTwo ==
    \/ \E raw \in OtherNames : UploadArrives(2, raw)
    \/ \E raw \in OtherNames : RegenerateArrives(2, raw, 1)
    \/ \E raw \in OtherNames : DeleteArrives(2, raw)

\* a step of the handler of the other project's request, or of its task
StepTwo ==
    \/ Lock(2)
    \/ \E io \in BOOLEAN : UploadEnsure(2, io)
    \/ UploadReserveRead(2)
    \/ \E io \in BOOLEAN : UploadReserveWrite(2, io)
    \/ \E io \in BOOLEAN : UploadMkdir(2, io)
    \/ \E body \in Bodies : UploadMultipart(2, body)
    \/ \E io \in BOOLEAN : UploadMeta(2, io)
    \/ UploadJoin(2)
    \/ \E io \in BOOLEAN : UploadBadZip(2, io)
    \/ \E rendered \in BOOLEAN : Render(2, rendered)
    \/ \E io \in BOOLEAN : StatusOk(2, io)
    \/ \E io \in BOOLEAN : SetLatest(2, io)
    \/ \E io \in BOOLEAN : StatusFailed(2, io)
    \/ RegenerateRemoveReport(2)
    \/ RegenerateReadLatest(2)
    \/ \E io \in BOOLEAN : DeleteProject(2, io)
    \/ \E wellformed \in BOOLEAN, len \in UploadArchiveLens : UnzipOpen(2, wellformed, len)
    \/ \E name \in UploadEntryNames : UnzipEntry(2, name, 0)
    \/ UnzipEnd(2)

NextTwo == ArrivesTwo \/ StepTwo

SpecTwo == InitTwo /\ [][NextTwo]_vars /\ WF_vars(StepTwo)

----------------------------------------------------------------------------
(* The specification of a panic in the extraction: the first upload to     *)
(* project "a" awaits its task, which may panic at any of its steps;       *)
(* the service goes on as in Spec.                                         *)

NextPanic ==
    \/ Next
    \/ \E t \in Slots : UnzipPanic(t)

SpecPanic == InitUnzip /\ [][NextPanic]_vars

----------------------------------------------------------------------------
(* Properties: run IDs, the guard and the registry of mutexes.             *)

\* the handler of slot r is between acquiring the guard and returning
InGuarded(r) ==
    /\ req[r].kind \in {"upload_run", "regenerate_run", "delete_project"}
    /\ req[r].pc \notin {"idle", "lock"}

\* the content of the file at p in the file map f
ContentIn(f, p) == IF p \in DOMAIN f THEN Some(f[p]) ELSE NoneOpt

\* the project names sanitize_name accepts
ValidNames == {n \in RawNames : IsSome(Sanitized[n])}

\* C1: counted from a project without a counter file, the run IDs that
\* reserve_next_run_id returns to the uploads of the project are 1, 2, ...,
\* N in the order of the reservations, which is the order in which the
\* uploads acquired the guard: increasing, without gap or repeat; and the
\* upload that holds the guard after its reservation has the last of them.
C1_RunIdsSequential ==
    /\ \A n \in RawNames : \A i \in 1..Len(reserved[n]) : reserved[n][i] = i
    /\ \A r \in Slots :
          (req[r].kind = "upload_run" /\ req[r].run_id # 0)
              => req[r].run_id = Len(reserved[Project(r)])

\* two uploads have reserved 1 and 2 and the second still holds the guard
\* while a third upload of the project waits for it
C1_Witness ==
    \E r, q \in Slots :
        /\ r # q
        /\ req[r].kind = "upload_run" /\ req[r].run_id = 2 /\ Holds(r)
        /\ req[q].kind = "upload_run" /\ req[q].pc = "lock"
        /\ req[q].project = req[r].project
        /\ reserved[Project(r)] = <<1, 2>>

\* C2: at most one of the handlers upload_run, regenerate_run and
\* delete_project of a project is between acquiring the project's guard and
\* returning.
C2_MutualExclusion ==
    \A r, q \in Slots :
        (r # q /\ InGuarded(r) /\ InGuarded(q)) => req[r].project # req[q].project

\* a handler is in its guarded section while another handler of the same
\* project waits for the guard
C2_Witness ==
    \E r, q \in Slots :
        /\ r # q
        /\ InGuarded(r) /\ req[r].kind = "regenerate_run"
        /\ req[q].pc = "lock" /\ req[q].kind = "delete_project"
        /\ req[q].project = req[r].project

\* C3: every call of project_lock for a name returns the handle of the
\* registry's one entry for the name (the handlers of a project all hold
\* the same handle), and an entry, once made, is never removed or replaced.
C3_OneHandlePerName ==
    /\ [](\A r \in Slots : req[r].lock # 0 => req[r].lock = project_locks[Project(r)])
    /\ [](\A g \in holder : g.handle[2] = project_locks[g.handle[1]])
    /\ [][\A n \in RawNames :
             project_locks[n] # 0 => project_locks'[n] = project_locks[n]]_vars

\* delete_project has returned and the entry of the project is still
\* there, handed to a later request
C3_Witness ==
    /\ response.kind = "delete_project" /\ response.code = 200
    /\ project_locks[response.raw] = 1
    /\ \E r \in Slots : req[r].pc = "lock" /\ req[r].raw = response.raw /\ req[r].lock = 1

----------------------------------------------------------------------------
(* Properties: the extractor (SpecUnzip).                                  *)

\* what the extraction has created lies under the destination
NoEscape ==
    \A p \in (dirs \cup DOMAIN files) \ (UnzipInitDirs \cup UnzipInitFiles) :
        IsPrefix(UnzipDest, normalize_lexical(p))

HasParentSegment(name) == \E i \in 1..Len(split(name)) : split(name)[i] = ParentDir

\* an entry name that, with its backslashes converted, starts with '/',
\* has ':' as its second character, or has a '..' segment
RefusedByCharacter(raw) ==
    LET name == replace_backslash(raw)
    IN  \/ (name # <<>> /\ name[1] = "/")
        \/ (Len(name) >= 2 /\ name[2] = ":")
        \/ HasParentSegment(name)

\* the same, with ':' as the second byte of the name
RefusedByByte(raw) ==
    LET name == replace_backslash(raw)
    IN  \/ (name # <<>> /\ name[1] = "/")
        \/ (ByteLen(name) >= 2 /\ as_bytes(name)[2] = ":")
        \/ HasParentSegment(name)

\* the extraction has ended with an error
ExtractionFailed(t) == task[t].st = "done" /\ task[t].err # None

\* C5 as stated: nothing is created outside the destination, and an entry
\* whose converted name starts with '/', has ':' as its second character or
\* has a '..' segment makes the extraction fail.
C5_AsStated ==
    /\ NoEscape
    /\ \A t \in Slots : RefusedByCharacter(task[t].name) => ExtractionFailed(t)

\* C5, amended: nothing is created outside the destination, and an entry
\* whose converted name starts with '/', has ':' as its second byte or has
\* a '..' segment makes the extraction fail.
C5_NoEscapeAndRefusal ==
    /\ NoEscape
    /\ \A t \in Slots : RefusedByByte(task[t].name) => ExtractionFailed(t)

\* an entry was extracted to a file, and the next entry, whose name starts
\* with a backslash, has made the extraction fail
C5_Witness ==
    /\ task[1].name = <<"\\", "a">>
    /\ ExtractionFailed(1) /\ task[1].files_count = 2
    /\ \E p \in DOMAIN files \ UnzipInitFiles : IsPrefix(UnzipDest, p)

----------------------------------------------------------------------------
(* Properties: what a request leaves behind when it returns.  They are     *)
(* stated of the state in which the response is sent.                      *)

\* the project of the request that was answered
Answered == Unwrap(Sanitized[response.raw])

\* the responses "bad zip: {e}" of upload_run
BadZipTexts == {bad_zip(e) : e \in UnzipErrors}

\* upload_run answers 200: extraction and rendering have succeeded
UploadSucceeded == response.kind = "upload_run" /\ response.code = 200

\* upload_run answers 500 with status failed: the renderer has failed
RenderFailed ==
    response.kind = "upload_run" /\ response.code = 500 /\ response.status = "failed"

\* upload_run answers 400 "bad zip: {e}": the extraction has failed
ExtractionRefused ==
    response.kind = "upload_run" /\ response.code = 400 /\ response.error \in BadZipTexts

\* C6: when upload_run returns after a successful extraction and a
\* successful rendering, the status record of the run is {success, none}
\* and the latest pointer of the project is the run ID of the upload.
C6_SuccessRecorded ==
    UploadSucceeded =>
        /\ read_run_status(Answered, response.run_id) = Some(RunStatus(<<"success">>, NoneOpt))
        /\ read_latest_run_id(Answered) = Some(response.run_id)

\* C7: when upload_run returns after the renderer failed, a run ID is
\* allocated and its run directory exists, the status record of the run is
\* {failed, the error text}, and the latest pointer was not moved to the
\* run.
C7_RenderFailureRecorded ==
    RenderFailed =>
        /\ response.run_id # 0
        /\ response.run_id \in {reserved[Answered][i] : i \in 1..Len(reserved[Answered])}
        /\ run_dir(Answered, response.run_id) \in dirs
        /\ read_run_status(Answered, response.run_id)
               = Some(RunStatus(<<"failed">>, Some(<<response.error>>)))
        /\ read_latest_run_id(Answered) # Some(response.run_id)

\* the project names C8 speaks of: 1 to 80 characters of [A-Za-z0-9._-]
WellFormedName(s) ==
    /\ Len(s) >= 1 /\ Len(s) <= MaxProjectNameLen
    /\ \A i \in 1..Len(s) : s[i] \in Lower \cup Upper \cup Digit \cup {".", "_", "-"}

\* C8: a request of upload_run, regenerate_run, delete_project or list_runs
\* whose project name is empty, longer than 80 characters or has a
\* character outside [A-Za-z0-9._-] is answered 400 on arrival: no handler
\* runs under such a name, and its arrival leaves the directories, the
\* files, the guards and the registry of mutexes as they were.
C8_InvalidNameRejected ==
    /\ [](\A r \in Slots : req[r].pc # "idle" => WellFormedName(req[r].raw))
    /\ []((response.kind # "idle" /\ ~WellFormedName(response.raw))
             => (response.code = 400 /\ ~response.wrote))
    /\ [][(response'.kind # "idle" /\ ~WellFormedName(response'.raw))
             => UNCHANGED <<dirs, files, holder, project_locks, req>>]_vars

\* a regenerate_run with a name of 81 characters has been rejected while
\* the project "a" has runs
C8_Witness ==
    /\ response.kind = "regenerate_run" /\ response.raw = LongName
    /\ response.code = 400
    /\ 1 \in Range(list_run_ids(<<"a">>))

\* C9: an upload_run with a valid project name and without the 'results'
\* field, or with malformed metadata, is rejected, and it has changed no
\* directory and no file: the counter is not advanced, no project
\* directory, run directory or metadata file is made.
C9_RejectedBeforeMutation ==
    /\ (response.kind = "upload_run"
           /\ response.error = "Missing multipart field 'results'")
          => (response.code = 400 /\ ~response.wrote)
    /\ \A r \in Slots : req[r].body.meta # "malformed"

\* C10: when upload_run returns after the extraction failed, the error is
\* reported, the status record of the run is {failed, the error text}, the
\* run directory remains, the renderer has not run (there is no report
\* directory), the latest pointer was not moved to the run, and the run ID
\* stays consumed: the counter is beyond it.
C10_ExtractionFailureRecorded ==
    ExtractionRefused =>
        /\ read_run_status(Answered, response.run_id)
               = Some(RunStatus(<<"failed">>, Some(<<response.error>>)))
        /\ run_dir(Answered, response.run_id) \in dirs
        /\ report_dir(Answered, response.run_id) \notin dirs
        /\ read_latest_run_id(Answered) # Some(response.run_id)
        /\ read_current(Answered) > response.run_id

\* C11: in upload_run and regenerate_run a storage write that fails makes
\* the request fail: no request of which a write has failed answers 200.
C11_WriteFailurePropagated ==
    (response.kind \in {"upload_run", "regenerate_run"} /\ response.write_failed)
        => response.code # 200

CounterIn(f, n) ==
    LET text == ContentIn(f, next_run_id_file(n))
    IN  IF IsSome(text) /\ IsSome(parse_u64(Unwrap(text)))
        THEN Unwrap(parse_u64(Unwrap(text))) ELSE 1

\* C13: no step of upload_run, regenerate_run or delete_project decreases
\* the counter of a project (so that no run ID of the project is handed
\* out twice).
C13_CounterNeverDecreases ==
    [][\A n \in ValidNames : CounterIn(files', n) >= CounterIn(files, n)]_vars

\* the latest pointer of project n in the file map f
LatestIn(f, n) ==
    LET text == ContentIn(f, latest_run_id_file(n))
    IN  IF IsSome(text) THEN parse_u64(Unwrap(text)) ELSE NoneOpt

\* C14: a step of regenerate_run of run R changes the latest pointer only
\* from absent to R, and only in the step that answers 200: a pointer that
\* holds another run ID is left as it is, and a regenerate_run that fails
\* leaves the pointer as it is.
C14_RegenerateKeepsLatest ==
    [][\A r \in Slots :
          (req[r].kind = "regenerate_run" /\ req'[r] # req[r])
              => \/ LatestIn(files', Project(r)) = LatestIn(files, Project(r))
                 \/ /\ LatestIn(files, Project(r)) = NoneOpt
                    /\ LatestIn(files', Project(r)) = Some(req[r].run_id)
                    /\ response'.code = 200]_vars

\* regenerate_run of run 2 has succeeded and the latest pointer is still 1
C14_Witness ==
    /\ response.kind = "regenerate_run" /\ response.code = 200
    /\ response.run_id = 2
    /\ read_latest_run_id(Answered) = Some(1)

\* C20: read_run_status of a run directory whose status.json was written
\* with write_json from a status value (success or failed, with or without
\* an error text) returns that value; with no status.json, or with one that
\* is no RunStatus, it returns None, and list_runs answers 200.
C20_StatusRoundTrip ==
    /\ \A v \in StatusValues :
           ContentIn(files, StatusPath) = Some(to_vec_pretty(v))
               => read_run_status(StatusProject, 1) = Some(v)
    /\ (StatusPath \notin DOMAIN files \/ ContentIn(files, StatusPath) \in {Some(text) : text \in Unparsable})
           => read_run_status(StatusProject, 1) = NoneOpt
    /\ response.kind = "list_runs"
           => response.code = 200 /\ response = RunItem(StatusProject, 1)

\* a status with an error text of a quote and a backslash was written and
\* list_runs has read it
C20_Witness ==
    /\ ContentIn(files, StatusPath)
           = Some(to_vec_pretty(RunStatus(<<"failed">>, Some(<<"\"", "\\">>))))
    /\ response.kind = "list_runs"
    /\ response.error = Some(<<"\"", "\\">>)

\* list_runs has read a truncated status.json and shows no status
C20_WitnessUnparsable ==
    /\ StatusPath \in DOMAIN files /\ files[StatusPath] \in Unparsable
    /\ files[StatusPath] # <<>>
    /\ response.kind = "list_runs" /\ response.status = NoneOpt

\* the texts the handler writes to the file p
CompleteTexts(p) == {w.bytes : w \in {x \in Writes : x.p = p}}

\* C15: a file that ui_latest, list_runs and project_summary read without
\* the guard changes, in any step of a writer, from its complete previous
\* content to the complete content that the writer writes, and never holds
\* an empty or a partly written text: each read sees one of the two.
C15_ReadersSeeCompleteFiles ==
    /\ [][\A p \in Targets :
              \/ ContentIn(files', p) = ContentIn(files, p)
              \/ \E r \in Slots : /\ req[r].write.p = p
                                   /\ ContentIn(files', p) = Some(req[r].write.bytes)]_vars
    /\ [](\A p \in Targets \cap DOMAIN files :
              \/ files[p] \in CompleteTexts(p)
              \/ p = next_run_id_file(WriteProject) /\ IsSome(parse_u64(files[p])))
    /\ [](response.kind = "ui_latest"
              => response.code = IF IsSome(read_latest_run_id(WriteProject)) THEN 307 ELSE 404)

\* ui_latest has read run 2 while set_latest_run_id(10) has written the
\* first of its two bytes to latest_run_id.tmp
C15_Witness ==
    /\ req[1].write = set_latest_run_id(WriteProject, 10)
    /\ files[req[1].write.tmp] = <<"1">>
    /\ response.kind = "ui_latest" /\ response.code = 307 /\ response.run_id = 2

\* what a set of paths holds in the subtree of the stuck project
UnderStuck(S) == {q \in S : IsPrefix(DataDir \o << <<"projects">>, StuckProject >>, q)}

\* C16: while regenerate_run of project "a" holds the guard of "a" and its
\* renderer never returns, every step of a request for another project
\* leaves the directories and the files under the subtree of "a" as they
\* are, and every such request acquires its guard and returns.
C16_ProjectsIndependent ==
    /\ [](\E g \in holder : g.handle[1] = StuckProject /\ g.by = 1)
    /\ [][/\ UnderStuck(dirs') = UnderStuck(dirs)
          /\ Restrict(files', UnderStuck(DOMAIN files'))
                 = Restrict(files, UnderStuck(DOMAIN files))]_vars
    /\ (req[2].pc = "lock") ~> (req[2].pc # "lock")
    /\ (req[2].pc # "idle") ~> (req[2].pc = "idle")

\* what the extraction has made: the paths that were not there before it
Extracted == (dirs \cup DOMAIN files) \ (UnzipInitDirs \cup UnzipInitFiles)

\* the extracted paths that hold no other one: an entry makes at most one
Leaves == {p \in Extracted : \A q \in Extracted : IsPrefix(p, q) => q = p}

\* the extraction of an archive of more than max_files entries ends
EndsTooLong == task[1].len > max_files /\ task[1].st # "done" /\ task'[1].st = "done"

ExtractedFiles == DOMAIN files \ UnzipInitFiles

RECURSIVE BytesIn(_)
BytesIn(S) == IF S = {} THEN 0
              ELSE LET p == CHOOSE p \in S : TRUE IN files[p] + BytesIn(S \ {p})

\* C18: whatever size the header of an entry declares, no extracted file
\* holds more than max_single_file bytes and all together hold no more
\* than max_total_uncompressed; a chunk is written only after both counters
\* with it are within their limits, and at the first chunk that crosses a
\* limit the extraction fails and writes nothing.
C18_SizeLimits ==
    /\ [](\A p \in ExtractedFiles : files[p] <= max_single_file)
    /\ [](BytesIn(ExtractedFiles) <= max_total_uncompressed)
    /\ [][files' # files /\ task[1].st = "file"
             => /\ task'[1].st = "file"
                /\ task'[1].written <= max_single_file
                /\ task'[1].total_uncompressed <= max_total_uncompressed]_vars
    /\ [][(task[1].st = "file" /\ task'[1].st = "file" /\ files' = files) => task' = task]_vars
    /\ [][(task[1].st = "file" /\ task'[1].st = "done")
             => /\ files' = files
                /\ task'[1].err \in {"zip entry exceeds max_single_file",
                                     "zip exceeds max_total_uncompressed"}
                /\ \/ task'[1].written > max_single_file
                   \/ task'[1].total_uncompressed > max_total_uncompressed]_vars

\* a file was filled to max_single_file, and the first chunk of the next
\* file crossed max_total_uncompressed
C18_Witness ==
    /\ task[1].st = "done" /\ task[1].err = "zip exceeds max_total_uncompressed"
    /\ \E p \in ExtractedFiles : files[p] = max_single_file
    /\ BytesIn(ExtractedFiles) = max_total_uncompressed

\* a chunk crossed max_single_file and was not written
C18_WitnessSingle ==
    /\ task[1].st = "done" /\ task[1].err = "zip entry exceeds max_single_file"
    /\ task[1].out_path \in DOMAIN files /\ files[task[1].out_path] < task[1].written

\* upload_run has answered an upload whose extraction task panicked
PanicAnswered ==
    response.kind = "upload_run" /\ response.error = bad_zip(JoinError)

\* C19: when the extraction task of an upload panics, upload_run answers as
\* for any extraction failure: 400 with the error text, the status record of
\* the run is {failed, the error text}, and the guard of the project is
\* free for the next request.
C19_PanicHandled ==
    PanicAnswered
        => /\ response.code = 400
           /\ read_run_status(Answered, response.run_id)
                  = Some(RunStatus(<<"failed">>, Some(<<response.error>>)))
           /\ \A g \in holder : g.handle[1] # Answered

----------------------------------------------------------------------------
(* The specification of deletions: uploads and deletions of the           *)
(* projects "a" and "." arrive; the file system accepts every operation    *)
(* the service asks for (no disk-full, no permission error).               *)

DeleteNames == {<<"a">>, <<".">>}

NextDelete ==
    \/ \E r \in Slots, raw \in DeleteNames : UploadArrives(r, raw)
    \/ \E r \in Slots, raw \in DeleteNames : DeleteArrives(r, raw)
    \/ \E r \in Slots : Lock(r)
    \/ \E r \in Slots : Abort(r)
    \/ \E r \in Slots : UploadEnsure(r, TRUE)
    \/ \E r \in Slots : UploadReserveRead(r)
    \/ \E r \in Slots : UploadReserveWrite(r, TRUE)
    \/ \E r \in Slots : UploadMkdir(r, TRUE)
    \/ \E r \in Slots, body \in Bodies : UploadMultipart(r, body)
    \/ \E r \in Slots : UploadMeta(r, TRUE)
    \/ \E r \in Slots : UploadJoin(r)
    \/ \E r \in Slots : UploadBadZip(r, TRUE)
    \/ \E r \in Slots, rendered \in BOOLEAN : Render(r, rendered)
    \/ \E r \in Slots : StatusOk(r, TRUE)
    \/ \E r \in Slots : SetLatest(r, TRUE)
    \/ \E r \in Slots : StatusFailed(r, TRUE)
    \/ \E r \in Slots : DeleteProject(r, TRUE)
    \/ \E t \in Slots, wellformed \in BOOLEAN, len \in UploadArchiveLens :
           UnzipOpen(t, wellformed, len)
    \/ \E t \in Slots, name \in UploadEntryNames : UnzipEntry(t, name, 0)
    \/ \E t \in Slots : UnzipEnd(t)

SpecDelete == Init /\ [][NextDelete]_vars

\* C21: delete_project is idempotent.  When the file system accepts its
\* operations, delete_project of an accepted project name answers 200,
\* whether the project exists or not, and in the state it returns in
\* list_run_ids of the project is empty, read_latest_run_id is None and
\* list_projects does not hold the project.
C21_DeleteIdempotent ==
    (response.kind = "delete_project" /\ response.code \notin {0, 400})
        => /\ response.code = 200
           /\ list_run_ids(Answered) = <<>>
           /\ read_latest_run_id(Answered) = NoneOpt
           /\ Answered \notin Range(list_projects)

----------------------------------------------------------------------------
(* The specification of the listings: the directory projects/ holds the    *)
(* project "a" and any entries of ProjectEntryNames, the directory runs/   *)
(* of "a" any entries of RunEntryNames, as directories, and each may hold  *)
(* a plain file; list_project_summaries and list_run_ids are called.       *)

ListProject == <<"a">>

\* names of entries of projects/: identifiers, and names sanitize_name
\* refuses
ProjectEntryNames == {<<"b">>, <<"B">>, <<"é">>, <<"+", "1">>}

\* names of entries of runs/: numbers, also with a sign or a leading zero,
\* and names that are no number
RunEntryNames == {<<"1">>, <<"2">>, <<"1", "0">>, <<"0", "1">>, <<"+", "1">>,
                  <<"-", "1">>, <<"a">>, <<"1", "a">>}

\* plain files: one under projects/, one under runs/ with a number for name
FileEntries == {DataDir \o << <<"projects">>, <<"b", "b">> >>,
                runs_dir(ListProject) \o << <<"3">> >>}

InitList ==
    /\ \E P \in SUBSET ProjectEntryNames, R \in SUBSET RunEntryNames :
           dirs = Ancestors(runs_dir(ListProject))
                      \cup {DataDir \o << <<"projects">>, n >> : n \in P}
                      \cup {runs_dir(ListProject) \o <<n>> : n \in R}
    /\ \E F \in SUBSET FileEntries : files = [f \in F |-> <<>>]
    /\ project_locks = [n \in RawNames |-> 0]
    /\ holder = {}
    /\ req = [r \in Slots |-> IdleReq]
    /\ task = [r \in Slots |-> IdleTask]
    /\ reserved = [n \in RawNames |-> <<>>]
    /\ arrived = 0
    /\ response = NoResponse

\* project_summary: the project, the number of its runs, its latest run
\* and the status of that run
project_summary(project) ==
    LET latest == read_latest_run_id(project)
        st == IF IsSome(latest) THEN read_run_status(project, Unwrap(latest)) ELSE NoneOpt
    IN  [project |-> project,
         runs_count |-> Len(list_run_ids(project)),
         latest_run_id |-> latest,
         latest_status |-> IF IsSome(st) THEN Some(Unwrap(st).status) ELSE NoneOpt,
         latest_error |-> IF IsSome(st) THEN Unwrap(st).error ELSE NoneOpt]

\* list_project_summaries: a summary for every listed project, in the order
\* of the names (sort_by keeps the order list_projects has made)
list_project_summaries ==
    [i \in 1..Len(list_projects) |-> project_summary(list_projects[i])]

\* list_projects_summary answers 200 with the summaries (in status)
ListProjectsSummary ==
    /\ response.kind = "idle"
    /\ response' = [NoResponse EXCEPT !.kind = "list_projects", !.code = 200,
                                      !.status = list_project_summaries]
    /\ UNCHANGED <<dirs, files, project_locks, holder, req, task, reserved, arrived>>

\* a call of list_run_ids: Ok with the IDs (in status)
ListRunIds(project) ==
    /\ response.kind = "idle"
    /\ response' = [NoResponse EXCEPT !.kind = "list_run_ids", !.raw = project,
                                      !.code = 200, !.status = list_run_ids(project)]
    /\ UNCHANGED <<dirs, files, project_locks, holder, req, task, reserved, arrived>>

NextList ==
    \/ ListProjectsSummary
    \/ ListRunIds(ListProject)

SpecList == InitList /\ [][NextList]_vars

\* the names of a listing are in strictly ascending order
Ascending(names) ==
    \A i, j \in 1..Len(names) : i < j => str_lt(names[i], names[j])

\* the numbers of a listing are in ascending order
AscendingIds(ids) == \A i, j \in 1..Len(ids) : i < j => ids[i] <= ids[j]

\* the sub-directories of runs/ of ListProject whose names parse as u64
RunEntries == {n \in dir_entries(runs_dir(ListProject)) : IsSome(parse_u64(n))}

\* C22: list_projects returns exactly the directories under projects/ whose
\* names are valid project identifiers, list_run_ids exactly the
\* sub-directories of runs/ whose names parse as unsigned integers, both in
\* ascending order; an entry with another name is skipped.
C22_ListingsFiltered ==
    /\ response.kind = "list_projects" =>
           /\ {response.status[i].project : i \in 1..Len(response.status)}
                  = {n \in dir_entries(DataDir \o << <<"projects">> >>) :
                         IsSome(sanitize_name(n))}
           /\ Ascending([i \in 1..Len(response.status) |-> response.status[i].project])
    /\ response.kind = "list_run_ids" =>
           /\ Range(response.status) = {Unwrap(parse_u64(n)) : n \in RunEntries}
           /\ Len(response.status) = Cardinality(RunEntries)
           /\ AscendingIds(response.status)

\* the part about list_run_ids alone, which holds
RunIdsFiltered ==
    response.kind = "list_run_ids" =>
        /\ Range(response.status) = {Unwrap(parse_u64(n)) : n \in RunEntries}
        /\ Len(response.status) = Cardinality(RunEntries)
        /\ AscendingIds(response.status)

----------------------------------------------------------------------------
(* The specification of a detached extraction: the first upload to project *)
(* "a" was dropped by its client while it awaited unzip_safely; its guard  *)
(* is released and its spawn_blocking task is still to run.  The service   *)
(* goes on as in Spec.                                                     *)

InitDetached ==
    /\ dirs = UnzipInitDirs
    /\ files = [f \in UnzipInitFiles |->
                   IF f = next_run_id_file(UnzipProject) THEN to_string(2) ELSE "default"]
    /\ project_locks = [n \in RawNames |-> IF n = UnzipProject THEN 1 ELSE 0]
    /\ holder = {}
    /\ req = [r \in Slots |-> IdleReq]
    /\ task = [r \in Slots |-> IF r = 1 THEN NewTask(UnzipDest) ELSE IdleTask]
    /\ reserved = [n \in RawNames |-> IF n = UnzipProject THEN <<1>> ELSE <<>>]
    /\ arrived = 0
    /\ response = NoResponse

SpecDetached == InitDetached /\ [][Next]_vars

----------------------------------------------------------------------------
(* Properties: aborted uploads.                                            *)

\* the step drops the upload of slot r after its run ID was reserved
AbortsReserved(r) ==
    /\ req[r].kind = "upload_run" /\ req[r].run_id > 0
    /\ req'[r].pc = "idle"
    /\ response'.kind = "upload_run" /\ response'.code = 0

\* the awaits of upload_run between the reservation and the first write of
\* status.json
BeforeStatus == {"mkdir", "multipart", "meta", "join", "render", "bad_zip",
                 "status_ok", "status_failed"}

\* what an aborted upload of run req[r].run_id leaves: the file system as it
\* was, the directories of the run when they were made, no status record,
\* the counter one past the run ID
LeftByAbort(r) ==
    LET P == Project(r)
        N == req[r].run_id
    IN  /\ dirs' = dirs /\ files' = files
        /\ req[r].pc # "mkdir" => Ancestors(results_dir(P, N)) \subseteq dirs'
        /\ status_file(P, N) \notin DOMAIN files'
        /\ ContentIn(files', next_run_id_file(P)) = Some(to_string(N + 1))

\* the run ID an upload receives is the value the counter has, and the
\* latest pointer changes only in a step that answers an upload or a
\* regeneration with 200 or a deletion
CounterGivesNext ==
    /\ \A r \in Slots :
           (req'[r].kind = "upload_run" /\ req'[r].run_id # req[r].run_id)
               => req'[r].run_id = read_current(req'[r].raw)
    /\ \A n \in ValidNames :
           ContentIn(files', latest_run_id_file(n)) # ContentIn(files, latest_run_id_file(n))
               => \/ response'.kind = "delete_project"
                  \/ /\ response'.kind \in {"upload_run", "regenerate_run"}
                     /\ response'.code = 200

\* C23: an upload aborted at an await after its run ID N was reserved
\* leaves the directories made for N in place with no status record, the
\* counter at N + 1 and the latest pointer as it was, and the next upload
\* receives N + 1.  (Stated for the awaits before the upload writes
\* status.json itself, where no status record of the upload can be there.)
C23_AbortKeepsReservation ==
    [][(\A r \in Slots : (AbortsReserved(r) /\ req[r].pc \in BeforeStatus) => LeftByAbort(r))
       /\ CounterGivesNext]_vars

----------------------------------------------------------------------------
(* Properties: the extraction and the guard.                               *)

\* the blocking task of slot t is dispatched and has not returned
Extracting(t) == task[t].st \notin {"idle", "done"}

\* C24: the extraction is inside the critical section of the upload that
\* dispatched it: while the task has not returned, that upload awaits it
\* and holds the guard of the project, so no other handler of the project
\* is between its lock and its return; also when the upload is aborted.
C24_ExtractionUnderGuard ==
    \A t \in Slots :
        Extracting(t) =>
            /\ req[t].kind = "upload_run" /\ req[t].pc = "join"
            /\ Holds(t)
            /\ IsPrefix(project_dir(Project(t)), task[t].dest)
            /\ \A r \in Slots \ {t} :
                   ~(InGuarded(r) /\ Project(r) = Project(t))

----------------------------------------------------------------------------
(* The specification of the readers: project "a" has run 1 with status     *)
(* success and the latest pointer at 1; the file system accepts every      *)
(* write.  The handlers run as in Spec; remove_dir_all of delete_project   *)
(* removes the entries of the project directory one after the other, in    *)
(* the order the directory yields them, and list_projects_summary, which   *)
(* takes no guard, reads in between.                                       *)

InitReaders ==
    /\ dirs = Ancestors(results_dir(StuckProject, 1))
    /\ files = [f \in {next_run_id_file(StuckProject), latest_run_id_file(StuckProject),
                       meta_file(StuckProject, 1), status_file(StuckProject, 1)} |->
                   IF f = next_run_id_file(StuckProject) THEN to_string(2)
                   ELSE IF f = latest_run_id_file(StuckProject) THEN to_string(1)
                   ELSE IF f = meta_file(StuckProject, 1) THEN "default"
                   ELSE to_vec_pretty(RunStatus(<<"success">>, NoneOpt))]
    /\ project_locks = [n \in RawNames |-> 0]
    /\ holder = {}
    /\ req = [r \in Slots |-> IdleReq]
    /\ task = [r \in Slots |-> IdleTask]
    /\ reserved = [n \in RawNames |-> IF n = StuckProject THEN <<1>> ELSE <<>>]
    /\ arrived = 0
    /\ response = NoResponse

\* remove_dir_all, one entry of the project directory: the entry and what
\* it holds are removed
RemoveEntry(r) ==
    LET pdir == project_dir(Project(r))
    IN  /\ req[r].kind = "delete_project" /\ req[r].pc = "delete"
        /\ \E e \in dirs \cup DOMAIN files :
               /\ Len(e) > 0 /\ Parent(e) = pdir
               /\ dirs' = Outside(dirs, e)
               /\ files' = Restrict(files, Outside(DOMAIN files, e))
               /\ reserved' = IF e = next_run_id_file(Project(r))
                              THEN [reserved EXCEPT ![Project(r)] = <<>>]
                              ELSE reserved
        /\ Goto(r, "delete")
        /\ UNCHANGED <<project_locks, holder, task, arrived>>

NextReaders ==
    \/ \E r \in Slots, raw \in SpecNames : UploadArrives(r, raw)
    \/ \E r \in Slots, raw \in SpecNames, id \in 1..MaxRunId : RegenerateArrives(r, raw, id)
    \/ \E r \in Slots, raw \in SpecNames : DeleteArrives(r, raw)
    \/ \E r \in Slots : Lock(r)
    \/ \E r \in Slots : Abort(r)
    \/ \E r \in Slots : UploadEnsure(r, TRUE)
    \/ \E r \in Slots : UploadReserveRead(r)
    \/ \E r \in Slots : UploadReserveWrite(r, TRUE)
    \/ \E r \in Slots : UploadMkdir(r, TRUE)
    \/ \E r \in Slots, body \in Bodies : UploadMultipart(r, body)
    \/ \E r \in Slots : UploadMeta(r, TRUE)
    \/ \E r \in Slots : UploadJoin(r)
    \/ \E r \in Slots : UploadBadZip(r, TRUE)
    \/ \E r \in Slots, rendered \in BOOLEAN : Render(r, rendered)
    \/ \E r \in Slots : StatusOk(r, TRUE)
    \/ \E r \in Slots : SetLatest(r, TRUE)
    \/ \E r \in Slots : StatusFailed(r, TRUE)
    \/ \E r \in Slots : RegenerateRemoveReport(r)
    \/ \E r \in Slots : RegenerateReadLatest(r)
    \/ \E r \in Slots : RemoveEntry(r)
    \/ \E r \in Slots : DeleteProject(r, TRUE)
    \/ \E t \in Slots, wellformed \in BOOLEAN, len \in UploadArchiveLens :
           UnzipOpen(t, wellformed, len)
    \/ \E t \in Slots, name \in UploadEntryNames : UnzipEntry(t, name, 0)
    \/ \E t \in Slots : UnzipEnd(t)
    \/ ListProjectsSummary

SpecReaders == InitReaders /\ [][NextReaders]_vars

\* C25: the status record of run N is written before the latest pointer is
\* set to N: in every reachable state in which the latest pointer of a
\* project reads N, status.json of run N is present and readable, and a
\* summary that reports a latest run reports its status.
C25_StatusBeforePointer ==
    /\ \A n \in ValidNames :
           IsSome(read_latest_run_id(n))
               => IsSome(read_run_status(n, Unwrap(read_latest_run_id(n))))
    /\ response.kind = "list_projects" =>
           \A i \in 1..Len(response.status) :
               IsSome(response.status[i].latest_run_id)
                   => IsSome(response.status[i].latest_status)

----------------------------------------------------------------------------
(* Properties: the counter bounds the run IDs.                             *)

\* C26: in every reachable state, every run directory ID of a project and
\* its latest pointer, when present, are smaller than the value of the
\* counter next_run_id (1 when the file is absent), and the ID that
\* reserve_next_run_id has just returned has no run directory.
C26_CounterAboveRuns ==
    /\ \A n \in ValidNames :
           /\ \A id \in Range(list_run_ids(n)) : id < read_current(n)
           /\ IsSome(read_latest_run_id(n))
                  => Unwrap(read_latest_run_id(n)) < read_current(n)
    /\ \A r \in Slots :
           (req[r].kind = "upload_run" /\ req[r].pc = "mkdir")
               => run_dir(Project(r), req[r].run_id) \notin dirs

----------------------------------------------------------------------------
(* Properties: the project directories.                                    *)

\* p is a strict descendant of root
StrictlyUnder(p, root) == IsPrefix(root, p) /\ p # root

\* the step changes a directory or a file at or under d
ChangesUnder(d) ==
    \/ {q \in dirs : IsPrefix(d, q)} # {q \in dirs' : IsPrefix(d, q)}
    \/ \E q \in DOMAIN files \cup DOMAIN files' :
           /\ IsPrefix(d, q)
           /\ ContentIn(files, q) # ContentIn(files', q)

\* the step is one of the handler of slot r, which is upload_run or
\* delete_project
HandlerStep(r) ==
    /\ req[r].kind \in {"upload_run", "delete_project"}
    /\ req[r].pc # "idle"
    /\ req'[r] # req[r]

\* an upload or a deletion changes nothing of another accepted project
OnlyOwnSubtree ==
    \A r \in Slots :
        HandlerStep(r) =>
            \A m \in ValidNames \ {Project(r)} : ~ChangesUnder(project_dir(m))

\* C27: for a project name that sanitize_name accepts, project_dir is a
\* strict descendant of data_dir/projects, the directories of two accepted
\* names are neither equal nor one inside the other, and a step of
\* upload_run or delete_project for the name changes nothing in the
\* directory of another accepted name.
C27_ProjectDirsDisjoint ==
    [][/\ \A r \in Slots :
              HandlerStep(r) =>
                  /\ StrictlyUnder(project_dir(Project(r)), DataDir \o << <<"projects">> >>)
                  /\ \A m \in ValidNames \ {Project(r)} :
                         /\ ~IsPrefix(project_dir(Project(r)), project_dir(m))
                         /\ ~IsPrefix(project_dir(m), project_dir(Project(r)))
       /\ OnlyOwnSubtree]_vars

\* the last part alone: it fails as well
OnlyOwnSubtreeAlways == [][OnlyOwnSubtree]_vars

----------------------------------------------------------------------------
(* The specification of the service under fair scheduling.  The runtime    *)
(* polls a handler that can go on; every storage call, the renderer and    *)
(* the multipart body return (weak fairness of the steps of a handler);    *)
(* the blocking pool runs a dispatched task to its end (weak fairness of   *)
(* the steps of a task); the mutex of tokio hands the guard to its         *)
(* waiters in the order they came (strong fairness of Lock).  Up to        *)
(* MaxFairRequests requests arrive, and clients drop them at will.         *)

\* a step of the handler of slot r after it has the guard
HandlerStepOf(r) ==
    \/ \E io \in BOOLEAN : UploadEnsure(r, io)
    \/ UploadReserveRead(r)
    \/ \E io \in BOOLEAN : UploadReserveWrite(r, io)
    \/ \E io \in BOOLEAN : UploadMkdir(r, io)
    \/ \E body \in Bodies : UploadMultipart(r, body)
    \/ \E io \in BOOLEAN : UploadMeta(r, io)
    \/ UploadJoin(r)
    \/ \E io \in BOOLEAN : UploadBadZip(r, io)
    \/ \E rendered \in BOOLEAN : Render(r, rendered)
    \/ \E io \in BOOLEAN : StatusOk(r, io)
    \/ \E io \in BOOLEAN : SetLatest(r, io)
    \/ \E io \in BOOLEAN : StatusFailed(r, io)
    \/ RegenerateRemoveReport(r)
    \/ RegenerateReadLatest(r)
    \/ \E io \in BOOLEAN : DeleteProject(r, io)
    \/ ListRuns(r)

\* a step of the blocking task of slot t
TaskStepOf(t) ==
    \/ \E wellformed \in BOOLEAN, len \in UploadArchiveLens : UnzipOpen(t, wellformed, len)
    \/ \E name \in UploadEntryNames : UnzipEntry(t, name, 0)
    \/ UnzipEnd(t)

\* the requests of a behaviour of SpecFair
MaxFairRequests == 2

\* a request arrives
ArrivesFair ==
    /\ arrived < MaxFairRequests
    /\ \E r \in Slots, raw \in SpecNames :
           \/ UploadArrives(r, raw)
           \/ \E id \in 1..MaxRunId : RegenerateArrives(r, raw, id)
           \/ DeleteArrives(r, raw)
           \/ ListRunsArrives(r, raw)

NextFair ==
    \/ ArrivesFair
    \/ \E r \in Slots : Lock(r)
    \/ \E r \in Slots : Abort(r)
    \/ \E r \in Slots : HandlerStepOf(r)
    \/ \E t \in Slots : TaskStepOf(t)

SpecFair ==
    /\ Init /\ [][NextFair]_vars
    /\ \A r \in Slots : WF_vars(HandlerStepOf(r)) /\ SF_vars(Lock(r)) /\ WF_vars(TaskStepOf(r))

====
